---- MODULE Spec2Model ----
(***************************************************************************)
(* A model of the data-wrangling chapter (03.03-pragmatic_matters.py):     *)
(* Python lists, pandas DataFrames built from them, and the operations the *)
(* chapter's cells apply to them.  A DataFrame is an object: the cells     *)
(* that assign to df[...] or to df.columns change that object, the others  *)
(* return a new one.  Library calls are modelled by what the call does.    *)
(***************************************************************************)
EXTENDS Integers, Sequences, FiniteSets, TLC

VARIABLES
    lists,      \* the Python list variables: name -> sequence of cells
    frames,     \* the DataFrame objects alive: object id -> table
    shared,     \* <<id, column position, list name>>: storage a column shares with a list
    last        \* the call made last: its name, arguments, result or error

vars == <<lists, frames, shared, last>>

----------------------------------------------------------------------------
(* Bounds of the model *)

MaxLen == 2         \* longest list, and so the most rows of a frame built from lists
MaxFrames == 4      \* DataFrame objects alive at once
MaxRows == 6        \* rows of the frame that is sliced (a prefix of the chapter's age data)
MaxArg == 7         \* largest start, stop or n given to a slice, head or tail
MaxStep == 2        \* largest step of a slice
MaxStack == 3       \* most rows that pd.concat puts together
MaxCut == 3         \* longest column that is cut into categories
MaxBins == 3        \* most bins pd.cut is asked for by number
MaxTab == 3         \* longest columns that are cross-tabulated
MaxMelt == 2         \* most rows of a frame that is melted
MaxWide == 2        \* participants in the drug data
MaxCols == 3        \* df[name] = ... adds a column only to a frame of fewer columns

----------------------------------------------------------------------------
(* Cells: a number, a string or a missing value (NaN / None) *)

Num(i) == [k |-> "num", v |-> i]
Str(s) == [k |-> "str", v |-> s]
Missing == [k |-> "na", v |-> 0]
IsMissing(c) == c.k = "na"
IsNum(c) == c.k = "num"
IsStr(c) == c.k = "str"

\* an optional argument: None, or a value
None == <<>>
Some(x) == <<x>>

Range(s) == {s[i] : i \in 1..Len(s)}
NoDuplicates(s) == \A i, j \in 1..Len(s) : s[i] = s[j] => i = j
\* the members of a set of integers in ascending order
Ascending(P) ==
    [i \in 1..Cardinality(P) |-> CHOOSE p \in P : Cardinality({q \in P : q < p}) = i - 1]
Min(a, b) == IF a < b THEN a ELSE b
Max(a, b) == IF a < b THEN b ELSE a

\* all sequences over S of length at most n
SeqsUpTo(S, n) == UNION {[1..k -> S] : k \in 0..n}

----------------------------------------------------------------------------
(* Tables *)

\* the default row index of a new DataFrame: RangeIndex(n) = 0, 1, ..., n-1
RangeIndex(n) == [i \in 1..n |-> Num(i - 1)]

\* a DataFrame: column labels, row labels, and the data column by column
Table(columns, index, data) == [columns |-> columns, index |-> index, data |-> data]

NRows(t) == Len(t.index)
NCols(t) == Len(t.columns)
\* df.shape
Shape(t) == <<NRows(t), NCols(t)>>
\* df.values.tolist(): one inner list per row, columns in their order
ToRowMajorList(t) == [i \in 1..NRows(t) |-> [j \in 1..NCols(t) |-> t.data[j][i]]]
\* the position of column label c (the first, should a label repeat), 0 if absent
ColPos(t, c) ==
    IF c \in Range(t.columns)
    THEN CHOOSE j \in 1..NCols(t) : t.columns[j] = c /\ \A h \in 1..(j - 1) : t.columns[h] # c
    ELSE 0

\* the rows of t at the given positions (1-based), in that order: labels go with rows
TakeRows(t, pos) ==
    Table(t.columns,
          [i \in 1..Len(pos) |-> t.index[pos[i]]],
          [j \in 1..NCols(t) |-> [i \in 1..Len(pos) |-> t.data[j][pos[i]]]])

----------------------------------------------------------------------------
(* The object store *)

Live == DOMAIN frames
FreeIds == (1..MaxFrames) \ Live
NewId == CHOOSE i \in FreeIds : \A j \in FreeIds : i <= j

\* the store with a new object t
Alloc(t) == [i \in Live \cup {NewId} |-> IF i = NewId THEN t ELSE frames[i]]

\* a call on frame id that returns the new frame t
Returns(t, call) ==
    /\ frames' = Alloc(t)
    /\ last' = call @@ [out |-> NewId, err |-> "none"]
    /\ UNCHANGED <<lists, shared>>

\* a call that raises: nothing is built
Raises(kind, call) ==
    /\ last' = call @@ [out |-> 0, err |-> kind]
    /\ UNCHANGED <<lists, frames, shared>>

\* a call that changes frame id into t
Changes(id, t, call) ==
    /\ frames' = [frames EXCEPT ![id] = t]
    /\ shared' = {s \in shared : ~(s[1] = id /\ frames[id].data[s[2]] # t.data[s[2]])}
    /\ last' = call @@ [out |-> id, err |-> "none"]
    /\ UNCHANGED lists

----------------------------------------------------------------------------
(* pd.DataFrame({name: list, ...}) *)

\* (mutant) no check of the lengths at all
SameLengthLax(ls, names) == TRUE

\* the constructor's check: every list of the same length
SameLength(ls, names) ==
    \A i, j \in 1..Len(names) : Len(ls[names[i]]) = Len(ls[names[j]])

\* the frame built: one column per key in the dict's order, a default row index,
\* and its own copy of each list's elements
FrameOf(ls, names) ==
    LET n == IF Len(names) = 0 THEN 0 ELSE Len(ls[names[1]])
    IN  Table([j \in 1..Len(names) |-> Str(names[j])],
              RangeIndex(n),
              [j \in 1..Len(names) |-> ls[names[j]]])

\* (mutant) the frame keeps the lists themselves as its columns
CtorSharesLists(id, names) == {<<id, j, names[j]>> : j \in 1..Len(names)}

\* storage the new frame shares with the lists it was built from: none (a copy)
CtorShares(id, names) == {}

DataFrame(names) ==
    /\ FreeIds # {}
    /\ IF SameLength(lists, names)
       THEN /\ frames' = Alloc(FrameOf(lists, names))
            /\ shared' = shared \cup CtorShares(NewId, names)
            /\ last' = [op |-> "DataFrame", names |-> names, out |-> NewId, err |-> "none"]
            /\ UNCHANGED lists
       ELSE Raises("ShapeMismatch", [op |-> "DataFrame", names |-> names])

----------------------------------------------------------------------------
(* Changing a list after the fact: lst[i] = v, lst.append(v), lst.pop(i) *)

RemoveAt(s, i) == [h \in 1..(Len(s) - 1) |-> IF h < i THEN s[h] ELSE s[h + 1]]

\* what a write to list l does to the frames: it reaches the columns that share
\* the list's storage (there are none unless a frame was built without copying)
WriteThrough(l, new) ==
    [id \in Live |->
        [frames[id] EXCEPT !.data =
            [j \in 1..Len(@) |->
                IF <<id, j, l>> \in shared THEN new ELSE @[j]]]]

ListWrite(l, new, what) ==
    /\ lists' = [lists EXCEPT ![l] = new]
    /\ frames' = WriteThrough(l, new)
    /\ last' = [op |-> what, list |-> l, out |-> 0, err |-> "none"]
    /\ UNCHANGED shared

ListSet(l, i, v) ==
    /\ i \in 1..Len(lists[l])
    /\ lists[l][i] # v
    /\ ListWrite(l, [lists[l] EXCEPT ![i] = v], "list.setitem")

ListAppend(l, v) ==
    /\ Len(lists[l]) < MaxLen
    /\ ListWrite(l, Append(lists[l], v), "list.append")

ListPop(l, i) ==
    /\ i \in 1..Len(lists[l])
    /\ ListWrite(l, RemoveAt(lists[l], i), "list.pop")

----------------------------------------------------------------------------
(* del df: the object is no longer referenced *)

Del(id) ==
    /\ id \in Live
    /\ frames' = [i \in Live \ {id} |-> frames[i]]
    /\ shared' = {s \in shared : s[1] # id}
    /\ last' = [op |-> "del", in |-> id, out |-> 0, err |-> "none"]
    /\ UNCHANGED lists

----------------------------------------------------------------------------
(* Slicing: x[start:stop:step] on a list, a Series or the rows of a DataFrame *)

StepOf(step) == IF step = None THEN 1 ELSE step[1]

\* the start of the slice on a sequence of n items, as Python adjusts it
SliceStart(n, start, step) ==
    IF start = None THEN (IF step < 0 THEN n - 1 ELSE 0)
    ELSE LET s == start[1]
         IN  IF s < 0
             THEN (IF s + n < 0 THEN (IF step < 0 THEN -1 ELSE 0) ELSE s + n)
             ELSE (IF s >= n THEN (IF step < 0 THEN n - 1 ELSE n) ELSE s)

\* (mutant) a stop that takes the item at stop as well
SliceStopInclusive(n, stop, step) ==
    IF stop = None THEN (IF step < 0 THEN -1 ELSE n)
    ELSE LET s == stop[1] + (IF step < 0 THEN -1 ELSE 1)
         IN  IF s < 0
             THEN (IF s + n < 0 THEN (IF step < 0 THEN -1 ELSE 0) ELSE s + n)
             ELSE (IF s >= n THEN (IF step < 0 THEN n - 1 ELSE n) ELSE s)

\* the stop of the slice, likewise
SliceStop(n, stop, step) ==
    IF stop = None THEN (IF step < 0 THEN -1 ELSE n)
    ELSE LET s == stop[1]
         IN  IF s < 0
             THEN (IF s + n < 0 THEN (IF step < 0 THEN -1 ELSE 0) ELSE s + n)
             ELSE (IF s >= n THEN (IF step < 0 THEN n - 1 ELSE n) ELSE s)

\* (mutant) the count rounded down: a last item short when the step does not
\* divide the span
SliceLengthShort(a, b, step) ==
    IF step < 0
    THEN (IF b < a THEN Max(1, (a - b) \div (-step)) ELSE 0)
    ELSE (IF a < b THEN Max(1, (b - a) \div step) ELSE 0)

\* how many items the adjusted slice holds
SliceLength(a, b, step) ==
    IF step < 0
    THEN (IF b < a THEN (a - b - 1) \div (-step) + 1 ELSE 0)
    ELSE (IF a < b THEN (b - a - 1) \div step + 1 ELSE 0)

\* the positions (1-based) x[start:stop:step] selects, in the order it yields them
SlicePositions(n, start, stop, step) ==
    LET st == StepOf(step)
        a == SliceStart(n, start, st)
        b == SliceStop(n, stop, st)
    IN  [i \in 1..SliceLength(a, b, st) |-> a + (i - 1) * st + 1]

\* df[start:stop:step]
SliceRows(t, start, stop, step) == TakeRows(t, SlicePositions(NRows(t), start, stop, step))

Slice(id, start, stop, step) ==
    /\ id \in Live
    /\ FreeIds # {}
    /\ LET call == [op |-> "slice", in |-> id, start |-> start, stop |-> stop, step |-> step]
       IN  IF step = Some(0)
           THEN Raises("ValueError", call)
           ELSE Returns(SliceRows(frames[id], start, stop, step), call)

----------------------------------------------------------------------------
(* df.head(n), df.tail(n) *)

DefaultN == 5

NOf(n) == IF n = None THEN DefaultN ELSE n[1]

\* head: self.iloc[:n]
HeadRows(t, n) == SliceRows(t, None, Some(n), None)

\* (mutant) tail without the case n == 0: self.iloc[-0:] is every row
TailRowsNoZero(t, n) == SliceRows(t, Some(-n), None, None)

\* tail: self.iloc[0:0] if n == 0, else self.iloc[-n:]
TailRows(t, n) ==
    IF n = 0 THEN SliceRows(t, Some(0), Some(0), None)
    ELSE SliceRows(t, Some(-n), None, None)

DfHead(id, n) ==
    /\ id \in Live
    /\ FreeIds # {}
    /\ Returns(HeadRows(frames[id], NOf(n)), [op |-> "head", in |-> id, n |-> n])

DfTail(id, n) ==
    /\ id \in Live
    /\ FreeIds # {}
    /\ Returns(TailRows(frames[id], NOf(n)), [op |-> "tail", in |-> id, n |-> n])

----------------------------------------------------------------------------
(* Boolean masks: df[col] < v, ==, ...; combined with &, | and ~; df[mask] *)

Cmp(col, op, val) == [t |-> "cmp", col |-> col, op |-> op, val |-> val]
And(l, r) == [t |-> "and", l |-> l, r |-> r]
Or(l, r) == [t |-> "or", l |-> l, r |-> r]
Not(p) == [t |-> "not", p |-> p]

CmpOps == {"<", ">", "==", "!=", "<=", ">="}
Ordering == {"<", ">", "<=", ">="}

\* the strings of the model in Python's (lexicographic) order
StrOrder ==
    <<"RT", "RT_alcohol", "RT_caffeine", "WMC", "WMC_alcohol", "WMC_caffeine", "a",
      "alcohol", "b", "c", "caffeine", "control", "female", "gender", "id", "male", "onk",
      "pip", "test">>
StrRank(s) == CHOOSE i \in 1..Len(StrOrder) : StrOrder[i] = s
Key(c) == IF IsNum(c) THEN c.v ELSE StrRank(c.v)

\* (mutant) two missing values taken to be equal, as None == None is
CompareMissingEqual(op, c, v) ==
    IF IsMissing(c) /\ IsMissing(v) THEN op \in {"==", "<=", ">="}
    ELSE IF IsMissing(c) \/ IsMissing(v) \/ c.k # v.k THEN op = "!="
    ELSE CASE op = "<" -> Key(c) < Key(v)
           [] op = ">" -> Key(c) > Key(v)
           [] op = "==" -> Key(c) = Key(v)
           [] op = "!=" -> Key(c) # Key(v)
           [] op = "<=" -> Key(c) <= Key(v)
           [] op = ">=" -> Key(c) >= Key(v)

\* one cell against a scalar.  A missing operand gives False, and True for != ;
\* so do a number and a string under == and !=
Compare(op, c, v) ==
    IF IsMissing(c) \/ IsMissing(v) \/ c.k # v.k THEN op = "!="
    ELSE CASE op = "<" -> Key(c) < Key(v)
           [] op = ">" -> Key(c) > Key(v)
           [] op = "==" -> Key(c) = Key(v)
           [] op = "!=" -> Key(c) # Key(v)
           [] op = "<=" -> Key(c) <= Key(v)
           [] op = ">=" -> Key(c) >= Key(v)

\* ordering a number against a string raises TypeError
Unordered(op, c, v) ==
    op \in Ordering /\ ~IsMissing(c) /\ ~IsMissing(v) /\ c.k # v.k

RECURSIVE MaskError(_, _)
\* the error evaluating mask expression p on t raises, operands left to right
MaskError(t, p) ==
    CASE p.t = "cmp" ->
            IF ColPos(t, p.col) = 0 THEN "UnknownColumn"
            ELSE IF \E i \in 1..NRows(t) : Unordered(p.op, t.data[ColPos(t, p.col)][i], p.val)
                 THEN "TypeMismatch"
                 ELSE "none"
      [] p.t = "not" -> MaskError(t, p.p)
      [] OTHER -> IF MaskError(t, p.l) # "none" THEN MaskError(t, p.l) ELSE MaskError(t, p.r)

RECURSIVE Mask(_, _)
\* the boolean Series p evaluates to, one value per row
Mask(t, p) ==
    CASE p.t = "cmp" -> [i \in 1..NRows(t) |-> Compare(p.op, t.data[ColPos(t, p.col)][i], p.val)]
      [] p.t = "not" -> [i \in 1..NRows(t) |-> ~Mask(t, p.p)[i]]
      [] p.t = "and" -> [i \in 1..NRows(t) |-> Mask(t, p.l)[i] /\ Mask(t, p.r)[i]]
      [] p.t = "or" -> [i \in 1..NRows(t) |-> Mask(t, p.l)[i] \/ Mask(t, p.r)[i]]

\* the positions where the mask is True, ascending
RECURSIVE TruePositions(_, _)
TruePositions(m, n) ==
    IF n = 0 THEN <<>>
    ELSE IF m[n] THEN Append(TruePositions(m, n - 1), n) ELSE TruePositions(m, n - 1)

\* (mutant) the rows kept are given a new default index
FilterRowsRenumbered(t, p) ==
    LET pos == TruePositions(Mask(t, p), NRows(t))
    IN  [TakeRows(t, pos) EXCEPT !.index = RangeIndex(Len(pos))]

\* df[mask]
FilterRows(t, p) == TakeRows(t, TruePositions(Mask(t, p), NRows(t)))

\* (mutant) the rows not selected are dropped from the frame itself
FilterInPlace(id, p) ==
    /\ id \in Live
    /\ FreeIds # {}
    /\ LET call == [op |-> "filter", in |-> id, pred |-> p]
       IN  IF MaskError(frames[id], p) # "none"
           THEN Raises(MaskError(frames[id], p), call)
           ELSE Changes(id, FilterRows(frames[id], p), call)

Filter(id, p) ==
    /\ id \in Live
    /\ FreeIds # {}
    /\ LET call == [op |-> "filter", in |-> id, pred |-> p]
       IN  IF MaskError(frames[id], p) # "none"
           THEN Raises(MaskError(frames[id], p), call)
           ELSE Returns(FilterRows(frames[id], p), call)

----------------------------------------------------------------------------
(* Assignments that change a DataFrame in place *)

\* t with column name set to vals: replaced where it is, or added at the end
WithColumn(t, name, vals) ==
    IF ColPos(t, name) # 0
    THEN [t EXCEPT !.data[ColPos(t, name)] = vals]
    ELSE [t EXCEPT !.columns = Append(@, name), !.data = Append(@, vals)]

\* df[name] = vals, vals a column of df's own rows
SetItem(id, name, vals, call) == Changes(id, WithColumn(frames[id], name, vals), call)

Sub4(c) == IF IsMissing(c) THEN Missing ELSE Num(c.v - 4)
Abs(c) == IF IsMissing(c) THEN Missing ELSE Num(IF c.v < 0 THEN -c.v ELSE c.v)
Sign(c) == IF IsMissing(c) THEN Missing
           ELSE Num(IF c.v < 0 THEN -1 ELSE IF c.v > 0 THEN 1 ELSE 0)

\* an arithmetic expression applied to each cell of a column
Elementwise(f, col) ==
    [i \in 1..Len(col) |->
        CASE f = "x-4" -> Sub4(col[i])
          [] f = "abs(x)" -> Abs(col[i])
          [] f = "np.sign(x-4)" -> Sign(Sub4(col[i]))]

\* df[name] = f(df[from]) for an arithmetic f: the column read must exist and
\* hold no string
Derive(id, name, from, f) ==
    /\ id \in Live
    /\ NCols(frames[id]) < MaxCols
    /\ LET t == frames[id]
           call == [op |-> "setitem", in |-> id, name |-> name]
       IN  IF ColPos(t, from) = 0 THEN Raises("UnknownColumn", call)
           ELSE IF \E i \in 1..NRows(t) : IsStr(t.data[ColPos(t, from)][i])
                THEN Raises("TypeMismatch", call)
                ELSE SetItem(id, name, Elementwise(f, t.data[ColPos(t, from)]), call)


\* df['centered'] = df['scores']-4
Centered(id) == Derive(id, Str("centered"), Str("scores"), "x-4")
\* df['opinion_strength'] = abs(df['centered'])
OpinionStrength(id) == Derive(id, Str("opinion_strength"), Str("centered"), "abs(x)")
\* df['opinion_direction'] = np.sign(df['scores']-4)
OpinionDirection(id) == Derive(id, Str("opinion_direction"), Str("scores"), "np.sign(x-4)")

\* lst[0:-1] + [x]
ReplaceLast(s, x) ==
    LET pos == SlicePositions(Len(s), Some(0), Some(-1), None)
    IN  Append([i \in 1..Len(pos) |-> s[pos[i]]], x)

\* (mutant) the names are assigned before their number is found not to fit
SetColumnsThenCheck(id, names) ==
    /\ id \in Live
    /\ LET call == [op |-> "columns", in |-> id, labels |-> names]
       IN  IF Len(names) # NCols(frames[id])
           THEN /\ frames' = [frames EXCEPT ![id].columns = names]
                /\ last' = call @@ [out |-> 0, err |-> "ShapeMismatch"]
                /\ UNCHANGED <<lists, shared>>
           ELSE Changes(id, [frames[id] EXCEPT !.columns = names], call)

\* df.columns = names
SetColumns(id, names) ==
    /\ id \in Live
    /\ LET call == [op |-> "columns", in |-> id, labels |-> names]
       IN  IF Len(names) # NCols(frames[id])
           THEN Raises("ShapeMismatch", call)
           ELSE Changes(id, [frames[id] EXCEPT !.columns = names], call)

\* df.index = labels
SetIndex(id, labels) ==
    /\ id \in Live
    /\ LET call == [op |-> "index", in |-> id, labels |-> labels]
       IN  IF Len(labels) # NRows(frames[id])
           THEN Raises("ShapeMismatch", call)
           ELSE Changes(id, [frames[id] EXCEPT !.index = labels], call)

\* tabs.columns = list(tabs.columns)[0:-1] + ['rowtotals']
RenameLastColumn(id) ==
    /\ id \in Live
    /\ SetColumns(id, ReplaceLast(frames[id].columns, Str("rowtotals")))

\* tabs.index = list(tabs.index)[0:-1] + ['coltotals']
RenameLastRow(id) ==
    /\ id \in Live
    /\ SetIndex(id, ReplaceLast(frames[id].index, Str("coltotals")))

----------------------------------------------------------------------------
(* Frames put together: left.join(right) and pd.concat([a, b]) *)

\* (mutant) columns of the same name are joined side by side
OverlapIgnored(a, b) == FALSE

\* the two frames have a column name in common
Overlap(a, b) == Range(a.columns) \cap Range(b.columns) # {}

\* (a variant that pairs the rows by their position)
MatchesByPosition(a, b, i) == {j \in 1..NRows(b) : j = i}

\* the rows of b whose label is the label of row i of a
Matches(a, b, i) == {j \in 1..NRows(b) : b.index[j] = a.index[i]}

RECURSIVE JoinPairs(_, _, _)
\* <<row of a, matching row of b or 0>> from row i of a on: the rows of a in
\* their order, each once for every match and once if it has none
JoinPairs(a, b, i) ==
    IF i > NRows(a) THEN <<>>
    ELSE LET m == Ascending(Matches(a, b, i))
         IN  (IF m = <<>> THEN <<<<i, 0>>>> ELSE [k \in 1..Len(m) |-> <<i, m[k]>>])
             \o JoinPairs(a, b, i + 1)

\* a.join(b): on the row labels, how = 'left'
JoinRows(a, b) ==
    LET pairs == JoinPairs(a, b, 1)
        rows == 1..Len(pairs)
    IN  Table(a.columns \o b.columns,
              [k \in rows |-> a.index[pairs[k][1]]],
              [j \in 1..(NCols(a) + NCols(b)) |->
                 IF j <= NCols(a)
                 THEN [k \in rows |-> a.data[j][pairs[k][1]]]
                 ELSE [k \in rows |-> IF pairs[k][2] = 0 THEN Missing
                                      ELSE b.data[j - NCols(a)][pairs[k][2]]]])

Join(l, r) ==
    /\ l \in Live /\ r \in Live
    /\ FreeIds # {}
    /\ LET call == [op |-> "join", in |-> l, other |-> r]
       IN  IF Overlap(frames[l], frames[r])
           THEN Raises("ValueError", call)
           ELSE Returns(JoinRows(frames[l], frames[r]), call)

\* the cells of column c of t, all missing if t has no such column
ColumnOrMissing(t, c) ==
    IF ColPos(t, c) = 0 THEN [i \in 1..NRows(t) |-> Missing] ELSE t.data[ColPos(t, c)]

\* (a variant that numbers the rows anew, as ignore_index = True does)
ConcatRowsRenumbered(a, b) ==
    LET extra == SelectSeq(b.columns, LAMBDA c : ColPos(a, c) = 0)
        cols == a.columns \o extra
    IN  Table(cols, RangeIndex(NRows(a) + NRows(b)),
              [j \in 1..Len(cols) |-> ColumnOrMissing(a, cols[j]) \o ColumnOrMissing(b, cols[j])])

\* pd.concat([a, b]): the rows of a, then those of b, labels as they were; the
\* columns of a, then those only b has
ConcatRows(a, b) ==
    LET extra == SelectSeq(b.columns, LAMBDA c : ColPos(a, c) = 0)
        cols == a.columns \o extra
    IN  Table(cols, a.index \o b.index,
              [j \in 1..Len(cols) |-> ColumnOrMissing(a, cols[j]) \o ColumnOrMissing(b, cols[j])])

Concat(l, r) ==
    /\ l \in Live /\ r \in Live
    /\ FreeIds # {}
    /\ NRows(frames[l]) + NRows(frames[r]) <= MaxStack
    /\ Returns(ConcatRows(frames[l], frames[r]), [op |-> "concat", in |-> l, other |-> r])

----------------------------------------------------------------------------
(* Cutting a numeric column into categories: pd.cut and pd.qcut.  Edges are *)
(* exact fractions: a sequence of numerators over one denominator.          *)

\* the numbers in a column, missing cells left out
Numbers(col) == {col[i].v : i \in {j \in 1..Len(col) : IsNum(col[j])}}
MinOf(S) == CHOOSE m \in S : \A x \in S : m <= x
MaxOf(S) == CHOOSE m \in S : \A x \in S : x <= m
\* the i-th smallest of the numbers in col, repeats counted
SortedAt(col, i) ==
    CHOOSE v \in Numbers(col) :
        /\ Cardinality({j \in 1..Len(col) : IsNum(col[j]) /\ col[j].v < v}) < i
        /\ i <= Cardinality({j \in 1..Len(col) : IsNum(col[j]) /\ col[j].v <= v})
\* how many cells of col hold a number
CountNumbers(col) == Cardinality({j \in 1..Len(col) : IsNum(col[j])})

\* the label of a bin that shows its range: (lo/den, hi/den]
Interval(lo, hi, den) == [k |-> "interval", v |-> <<lo, hi, den>>]

\* the k+1 edges of k bins of equal width over [mn, mx], in units of
\* 1/(1000*k): the first edge is lowered by 0.1% of the range so that the
\* smallest value falls in the first bin; if mn = mx the range is first
\* widened by 0.1% of |mn| (by 0.001 if mn = 0) on both sides
FixedWidthEdges(mn, mx, k) ==
    IF mn = mx
    THEN LET a == IF mn = 0 THEN 1 ELSE IF mn < 0 THEN -mn ELSE mn
         IN  [j \in 1..(k + 1) |-> 1000 * k * mn - k * a + 2 * a * (j - 1)]
    ELSE [j \in 1..(k + 1) |->
            IF j = 1 THEN 1000 * k * mn - k * (mx - mn)
            ELSE 1000 * (k * mn + (j - 1) * (mx - mn))]

\* (mutant) a value on an edge goes to the bin above it
BinOfLeftClosed(edges, x, lowest) ==
    LET notabove == Cardinality({j \in 1..Len(edges) : edges[j] <= x})
    IN  IF notabove = 0 \/ notabove = Len(edges) THEN 0 ELSE notabove

\* the bin x falls in, bins being (edge, next edge]: the number of edges below
\* x; 0 (no bin) if x is not above the first edge or is above the last; with
\* lowest, a value on the first edge goes to the first bin
BinOf(edges, x, lowest) ==
    LET below == Cardinality({j \in 1..Len(edges) : edges[j] < x})
    IN  IF lowest /\ x = edges[1] THEN 1
        ELSE IF below = 0 \/ below = Len(edges) THEN 0 ELSE below

\* (a variant that never includes the lowest edge)
CodesOpenLowest(col, edges, den, lowest) ==
    [i \in 1..Len(col) |-> IF IsNum(col[i]) THEN BinOf(edges, col[i].v * den, FALSE) ELSE 0]

\* the bin of each cell of col, 0 for a missing cell
Codes(col, edges, den, lowest) ==
    [i \in 1..Len(col) |-> IF IsNum(col[i]) THEN BinOf(edges, col[i].v * den, lowest) ELSE 0]

\* the labels that show the ranges of the bins
IntervalLabels(edges, den) ==
    [b \in 1..(Len(edges) - 1) |-> Interval(edges[b], edges[b + 1], den)]

\* (a variant that gives a cell without a bin the first label)
CategoricalFirst(codes, cats) ==
    [i \in 1..Len(codes) |-> IF codes[i] = 0 THEN cats[1] ELSE cats[codes[i]]]

\* the categorical column: each cell the label of its bin, or missing
Categorical(codes, cats) ==
    [i \in 1..Len(codes) |-> IF codes[i] = 0 THEN Missing ELSE cats[codes[i]]]

StrictlyIncreasing(e) == \A i \in 1..(Len(e) - 1) : e[i] < e[i + 1]

\* df['categories'] = ..., the call recorded with its bins
SetCategories(id, codes, cats, call) ==
    SetItem(id, Str("categories"), Categorical(codes, cats),
            [cats |-> cats, codes |-> codes] @@ call)

\* the column that is cut
AgeOf(id) == frames[id].data[ColPos(frames[id], Str("age"))]

\* what keeps a column from being cut: it is not there, or holds a string
CutError(id) ==
    IF ColPos(frames[id], Str("age")) = 0 THEN "UnknownColumn"
    ELSE IF \E i \in 1..Len(AgeOf(id)) : IsStr(AgeOf(id)[i]) THEN "TypeMismatch"
    ELSE "none"

\* df['categories'] = pd.cut(x = df['age'], bins = k)
CutBins(id, k) ==
    /\ id \in Live
    /\ LET call == [op |-> "cut", in |-> id, k |-> k, cats |-> <<>>, codes |-> <<>>]
       IN  IF CutError(id) # "none" THEN Raises(CutError(id), call)
           ELSE IF k < 1 \/ Len(AgeOf(id)) = 0 THEN Raises("ValueError", call)
           ELSE /\ Numbers(AgeOf(id)) # {}
                /\ LET edges == FixedWidthEdges(MinOf(Numbers(AgeOf(id))),
                                                MaxOf(Numbers(AgeOf(id))), k)
                   IN  SetCategories(id, Codes(AgeOf(id), edges, 1000 * k, FALSE),
                                     IntervalLabels(edges, 1000 * k), call)

\* df['categories'] = pd.cut(x = df['age'], bins = edges, labels = labels)
CutEdges(id, edges, labels) ==
    /\ id \in Live
    /\ LET call == [op |-> "cut", in |-> id, edges |-> edges, labels |-> labels,
                    cats |-> <<>>, codes |-> <<>>]
       IN  IF CutError(id) # "none" THEN Raises(CutError(id), call)
           ELSE IF ~StrictlyIncreasing(edges) THEN Raises("ValueError", call)
           ELSE IF labels # None /\ Len(labels[1]) # Len(edges) - 1
                THEN Raises("LabelCountMismatch", call)
           ELSE SetCategories(id, Codes(AgeOf(id), edges, 1, FALSE),
                              IF labels = None THEN IntervalLabels(edges, 1) ELSE labels[1],
                              call)

\* (a variant that takes the higher of the two order statistics)
QuantileOfHigher(col, qi, den) ==
    LET pos == qi * (CountNumbers(col) - 1)
        lo == pos \div den
        part == pos % den
    IN  IF part = 0 THEN den * SortedAt(col, lo + 1)
        ELSE den * SortedAt(col, lo + 2)

\* the quantile q[i]/den of the numbers in col, in units of 1/den: linear
\* interpolation between the two order statistics around position q*(n-1)
QuantileOf(col, qi, den) ==
    LET pos == qi * (CountNumbers(col) - 1)
        lo == pos \div den
        part == pos % den
    IN  IF part = 0 THEN den * SortedAt(col, lo + 1)
        ELSE den * SortedAt(col, lo + 1)
             + part * (SortedAt(col, lo + 2) - SortedAt(col, lo + 1))

\* the edges pd.qcut computes
QuantileEdges(col, q, den) == [i \in 1..Len(q) |-> QuantileOf(col, q[i], den)]

\* the labels of qcut's bins: the first shows a lower end 0.001 below its edge,
\* in units of 1/(1000*den)
QuantileLabels(edges, den) ==
    [b \in 1..(Len(edges) - 1) |->
        Interval(IF b = 1 THEN 1000 * edges[1] - den ELSE 1000 * edges[b],
                 1000 * edges[b + 1], 1000 * den)]

\* df['categories'] = pd.qcut(x = df['age'], q = [q[1]/den, ...])
QCut(id, q, den) ==
    /\ id \in Live
    /\ LET call == [op |-> "qcut", in |-> id, q |-> q, den |-> den,
                    cats |-> <<>>, codes |-> <<>>]
       IN  IF CutError(id) # "none" THEN Raises(CutError(id), call)
           ELSE /\ Numbers(AgeOf(id)) # {}
                /\ LET edges == QuantileEdges(AgeOf(id), q, den)
                   IN  IF Len(edges) # 2 /\ ~StrictlyIncreasing(edges)
                       THEN Raises("ValueError", call)
                       ELSE SetCategories(id, Codes(AgeOf(id), edges, den, TRUE),
                                          QuantileLabels(edges, den), call)

----------------------------------------------------------------------------
(* pd.crosstab(index = ..., columns = ..., margins = ...) *)

\* the positions where both keys have a value: the others are dropped
Complete(rkey, ckey) ==
    {i \in 1..Len(rkey) : ~IsMissing(rkey[i]) /\ ~IsMissing(ckey[i])}

\* (a variant that lists the values in descending order)
LevelsDescending(key, P) ==
    LET S == {key[i] : i \in P}
    IN  CHOOSE s \in [1..Cardinality(S) -> S] :
            \A i, j \in 1..Cardinality(S) : i < j => Key(s[i]) > Key(s[j])

\* the distinct values of key at the positions P, in ascending order
Levels(key, P) ==
    LET S == {key[i] : i \in P}
    IN  CHOOSE s \in [1..Cardinality(S) -> S] :
            \A i, j \in 1..Cardinality(S) : i < j => Key(s[i]) < Key(s[j])

\* (a variant whose totals count the rows with a NaN key as well)
CrossCountsAllRows(rkey, ckey, margins) ==
    LET P == Complete(rkey, ckey)
        all == Str("All")
        rs == IF margins THEN Append(Levels(rkey, P), all) ELSE Levels(rkey, P)
        cs == IF margins THEN Append(Levels(ckey, P), all) ELSE Levels(ckey, P)
    IN  Table(cs, rs,
              [j \in 1..Len(cs) |->
                  [i \in 1..Len(rs) |->
                      Num(Cardinality({h \in 1..Len(rkey) :
                                          /\ (rs[i] = all \/ rkey[h] = rs[i])
                                          /\ (cs[j] = all \/ ckey[h] = cs[j])}))]])

\* the table of counts: a row per value of rkey, a column per value of ckey,
\* and with margins a last row and a last column 'All' of totals
CrossCounts(rkey, ckey, margins) ==
    LET P == Complete(rkey, ckey)
        all == Str("All")
        rs == IF margins THEN Append(Levels(rkey, P), all) ELSE Levels(rkey, P)
        cs == IF margins THEN Append(Levels(ckey, P), all) ELSE Levels(ckey, P)
    IN  Table(cs, rs,
              [j \in 1..Len(cs) |->
                  [i \in 1..Len(rs) |->
                      Num(Cardinality({h \in P : /\ (rs[i] = all \/ rkey[h] = rs[i])
                                                 /\ (cs[j] = all \/ ckey[h] = cs[j])}))]])

\* pd.crosstab(index = df[rname], columns = df[cname], margins = margins), and
\* with no cname pd.crosstab(index = df[rname], columns = "count")
Crosstab(id, rname, cname, margins) ==
    /\ id \in Live
    /\ FreeIds # {}
    /\ LET t == frames[id]
           call == [op |-> "crosstab", in |-> id, rows |-> rname, cols |-> cname,
                    margins |-> margins]
           known == /\ Str(rname) \in Range(t.columns)
                    /\ cname # None => Str(cname[1]) \in Range(t.columns)
           rkey == t.data[ColPos(t, Str(rname))]
           ckey == IF cname = None THEN [i \in 1..NRows(t) |-> Str("count")]
                   ELSE t.data[ColPos(t, Str(cname[1]))]
       IN  IF ~known THEN Raises("UnknownColumn", call)
           ELSE /\ Complete(rkey, ckey) # {}
                /\ Returns(CrossCounts(rkey, ckey, margins), call)

----------------------------------------------------------------------------
(* Counts turned into proportions: tabs/tabs.loc['coltotals'] and          *)
(* tabs.div(tabs["rowtotals"], axis=0)                                      *)

RECURSIVE GCD(_, _)
GCD(a, b) == IF b = 0 THEN a ELSE GCD(b, a % b)

\* (a variant that divides as integers do)
RatioFloor(n, d) == Num(n \div d)

\* the number n/d for d > 0 and n >= 0: an integer, or a fraction in lowest terms
Ratio(n, d) ==
    IF n % d = 0 THEN Num(n \div d)
    ELSE [k |-> "ratio", v |-> <<n \div GCD(n, d), d \div GCD(n, d)>>]

Infinite == [k |-> "inf", v |-> 0]

\* (a variant in which 0/0 is 0)
QuotZero(a, b) ==
    IF IsMissing(a) \/ IsMissing(b) THEN Missing
    ELSE IF b.v # 0 THEN Ratio(a.v, b.v)
    ELSE IF a.v = 0 THEN Num(0)
    ELSE Infinite

\* a / b for two cells of counts: x/0 is inf, 0/0 is NaN, and nothing is raised
Quot(a, b) ==
    IF IsMissing(a) \/ IsMissing(b) THEN Missing
    ELSE IF b.v # 0 THEN Ratio(a.v, b.v)
    ELSE IF a.v = 0 THEN Missing
    ELSE Infinite

\* the position of row label l, 0 if absent
RowPos(t, l) ==
    IF l \in Range(t.index) THEN CHOOSE i \in 1..NRows(t) : t.index[i] = l ELSE 0

\* tabs/tabs.loc[label]: every row is divided, cell by cell, by the row label
DivideByRow(id, label) ==
    /\ id \in Live
    /\ FreeIds # {}
    /\ LET t == frames[id]
           call == [op |-> "truediv", in |-> id, by |-> label]
           r == RowPos(t, label)
       IN  IF r = 0 THEN Raises("LabelNotFound", call)
           ELSE Returns(Table(t.columns, t.index,
                              [j \in 1..NCols(t) |->
                                  [i \in 1..NRows(t) |-> Quot(t.data[j][i], t.data[j][r])]]),
                        call)

\* tabs.div(tabs[name], axis=0): every column is divided, cell by cell, by the
\* column name
DivByColumn(id, name) ==
    /\ id \in Live
    /\ FreeIds # {}
    /\ LET t == frames[id]
           call == [op |-> "div", in |-> id, by |-> name]
           c == ColPos(t, name)
       IN  IF c = 0 THEN Raises("UnknownColumn", call)
           ELSE Returns(Table(t.columns, t.index,
                              [j \in 1..NCols(t) |->
                                  [i \in 1..NRows(t) |-> Quot(t.data[j][i], t.data[c][i])]]),
                        call)

\* the division of every cell by the cell in row label, column name: the
\* proportions of the grand total
DivByTotal(id, label, name) ==
    /\ id \in Live
    /\ FreeIds # {}
    /\ LET t == frames[id]
           call == [op |-> "div.total", in |-> id, by |-> name]
           r == RowPos(t, label)
           c == ColPos(t, name)
       IN  IF r = 0 THEN Raises("LabelNotFound", call)
           ELSE IF c = 0 THEN Raises("UnknownColumn", call)
           ELSE Returns(Table(t.columns, t.index,
                              [j \in 1..NCols(t) |->
                                  [i \in 1..NRows(t) |-> Quot(t.data[j][i], t.data[c][r])]]),
                        call)

----------------------------------------------------------------------------
(* pd.melt(df, id_vars = [...]) *)

\* (a variant that melts the id columns as well)
ValueVarsAll(t, ids) == Ascending(1..NCols(t))

\* the columns that are melted: those not named in id_vars, in their order
ValueVars(t, ids) == Ascending({j \in 1..NCols(t) : t.columns[j] \notin Range(ids)})

\* pd.melt(df, id_vars = idvars): the id columns, then 'variable' and 'value';
\* the rows of the first melted column, then those of the second, ...
Melt(id, idvars) ==
    /\ id \in Live
    /\ FreeIds # {}
    /\ LET t == frames[id]
           call == [op |-> "melt", in |-> id, idvars |-> idvars]
           ids == [k \in 1..Len(idvars) |-> Str(idvars[k])]
           vals == ValueVars(t, ids)
           n == NRows(t)
           row(r) == ((r - 1) % n) + 1
           var(r) == vals[((r - 1) \div n) + 1]
       IN  IF ~(Range(ids) \subseteq Range(t.columns)) THEN Raises("UnknownColumn", call)
           ELSE Returns(Table(ids \o <<Str("variable"), Str("value")>>,
                              RangeIndex(n * Len(vals)),
                              [k \in 1..(Len(ids) + 2) |->
                                  [r \in 1..(n * Len(vals)) |->
                                      IF k <= Len(ids) THEN t.data[ColPos(t, ids[k])][row(r)]
                                      ELSE IF k = Len(ids) + 1 THEN t.columns[var(r)]
                                      ELSE t.data[var(r)][row(r)]]]),
                        call)

----------------------------------------------------------------------------
(* Long to wide: pd.pivot(df, index = [...], columns = ..., values = ...)   *)

\* a label of a named axis (an Index with a name, a MultiIndex): the names of
\* its levels, None for a level without one, and the value at each level
Keyed(names, vals) == [k |-> "key", v |-> <<names, vals>>]

\* the labels of S in ascending order: by the first level that differs
SortedLabels(S) ==
    LET Precedes(a, b) ==
            \E k \in 1..Len(a) : (\A h \in 1..(k - 1) : a[h] = b[h]) /\ Key(a[k]) < Key(b[k])
    IN  CHOOSE s \in [1..Cardinality(S) -> S] :
            \A i, j \in 1..Cardinality(S) : i < j => Precedes(s[i], s[j])

\* (a variant that fills a combination no row has with 0)
PivotCellZero(col, at) == IF at = {} THEN Num(0) ELSE col[CHOOSE i \in at : TRUE]

\* the cell of the wide frame for the rows `at` of the long frame that have its
\* row key and its column key: NaN if there is none
PivotCell(col, at) == IF at = {} THEN Missing ELSE col[CHOOSE i \in at : TRUE]

\* pd.pivot(df, index = index, columns = columns, values = values): a row per
\* value of the index columns and a column per value column and value of
\* `columns`, both in ascending order; values.list tells a list of names from
\* a single name, which gives the columns one level only
Pivot(id, index, columns, values) ==
    /\ id \in Live
    /\ FreeIds # {}
    /\ LET t == frames[id]
           call == [op |-> "pivot", in |-> id, index |-> index, columns |-> columns,
                    values |-> values]
           idx == [k \in 1..Len(index) |-> Str(index[k])]
           vals == [k \in 1..Len(values.names) |-> Str(values.names[k])]
           n == NRows(t)
           rowkey(i) == [k \in 1..Len(idx) |-> t.data[ColPos(t, idx[k])][i]]
           colkey(i) == <<t.data[ColPos(t, Str(columns))][i]>>
           rows == SortedLabels({rowkey(i) : i \in 1..n})
           levels == SortedLabels({colkey(i) : i \in 1..n})
           at(r, c) == {i \in 1..n : rowkey(i) = rows[r] /\ colkey(i) = levels[c]}
           val(j) == vals[((j - 1) \div Len(levels)) + 1]
           lev(j) == ((j - 1) % Len(levels)) + 1
       IN  IF ~(Range(idx) \cup {Str(columns)} \cup Range(vals) \subseteq Range(t.columns))
           THEN Raises("UnknownColumn", call)
           ELSE IF \E i, j \in 1..n : i # j /\ rowkey(i) = rowkey(j) /\ colkey(i) = colkey(j)
           THEN Raises("DuplicateKey", call)
           ELSE Returns(Table([j \in 1..(Len(vals) * Len(levels)) |->
                                  IF values.list
                                  THEN Keyed(<<None, Str(columns)>>, <<val(j)>> \o levels[lev(j)])
                                  ELSE Keyed(<<Str(columns)>>, levels[lev(j)])],
                              [r \in 1..Len(rows) |-> Keyed(idx, rows[r])],
                              [j \in 1..(Len(vals) * Len(levels)) |->
                                  [r \in 1..Len(rows) |->
                                      PivotCell(t.data[ColPos(t, val(j))], at(r, lev(j)))]]),
                        call)

----------------------------------------------------------------------------
(* Wide to long by stub names: pd.wide_to_long(df, stubnames, i, j,         *)
(* sep = '_', suffix = '.+'), and df.reset_index()                          *)

\* what follows stub and '_' in a column name, if the name is stub, '_' and
\* one character or more (the pattern '.+'): the ends that names have here
SuffixOf(name, stub) ==
    {s \in {"alcohol", "caffeine"} : name = Str(stub \o "_" \o s)}

\* (a variant that looks at the columns of the first stub only)
ObservedOfFirst(t, stubs) ==
    LET at == {c \in 1..NCols(t) : SuffixOf(t.columns[c], stubs[1]) # {}}
        found == [k \in 1..Cardinality(at) |->
                     CHOOSE x \in SuffixOf(t.columns[Ascending(at)[k]], stubs[1]) : TRUE]
        first == {k \in 1..Len(found) : \A h \in 1..(k - 1) : found[h] # found[k]}
    IN  [k \in 1..Cardinality(first) |-> found[Ascending(first)[k]]]

\* the suffixes found, each once, in the order they are met: stub by stub, and
\* for each stub column by column
Observed(t, stubs) ==
    LET at == {x \in 1..(Len(stubs) * NCols(t)) :
                  SuffixOf(t.columns[((x - 1) % NCols(t)) + 1],
                           stubs[((x - 1) \div NCols(t)) + 1]) # {}}
        found == [k \in 1..Cardinality(at) |->
                     LET x == Ascending(at)[k]
                     IN  CHOOSE y \in SuffixOf(t.columns[((x - 1) % NCols(t)) + 1],
                                               stubs[((x - 1) \div NCols(t)) + 1]) : TRUE]
        first == {k \in 1..Len(found) : \A h \in 1..(k - 1) : found[h] # found[k]}
    IN  [k \in 1..Cardinality(first) |-> found[Ascending(first)[k]]]

\* pd.wide_to_long(df, stubnames = stubs, i = i, j = j, sep = '_', suffix = '.+'):
\* a row per row of df and suffix found, labelled with the id cells and the
\* suffix; the columns that are neither ids nor matched, in sorted order, then
\* a column per stub, NaN where df has no column of that stub and suffix
WideToLong(id, stubs, i, j) ==
    /\ id \in Live
    /\ FreeIds # {}
    /\ LET t == frames[id]
           call == [op |-> "wide_to_long", in |-> id, stubs |-> stubs, i |-> i, j |-> j]
           ids == [k \in 1..Len(i) |-> Str(i[k])]
           idcells(r) == [k \in 1..Len(ids) |-> t.data[ColPos(t, ids[k])][r]]
           unmatched == {c \in 1..NCols(t) :
                            /\ \A k \in 1..Len(stubs) : SuffixOf(t.columns[c], stubs[k]) = {}
                            /\ t.columns[c] \notin Range(ids)}
       IN  IF \E k \in 1..Len(stubs) : Str(stubs[k]) \in Range(t.columns)
           THEN Raises("ValueError", call)
           ELSE IF ~(Range(ids) \subseteq Range(t.columns)) THEN Raises("UnknownColumn", call)
           ELSE IF \E r, q \in 1..NRows(t) : r # q /\ idcells(r) = idcells(q)
           THEN Raises("ValueError", call)
           ELSE \E sfx \in {Observed(t, stubs)}, others \in {Levels(t.columns, unmatched)} :
                LET cols == others \o [k \in 1..Len(stubs) |-> Str(stubs[k])]
                    n == NRows(t) * Len(sfx)
                    row(h) == ((h - 1) \div Len(sfx)) + 1
                    suf(h) == sfx[((h - 1) % Len(sfx)) + 1]
                    from(c, h) == IF c <= Len(others) THEN others[c]
                                  ELSE Str(stubs[c - Len(others)] \o "_" \o suf(h))
                IN  Returns(Table(cols,
                                  [h \in 1..n |-> Keyed(Append(ids, Str(j)),
                                                        Append(idcells(row(h)), Str(suf(h))))],
                                  [c \in 1..Len(cols) |->
                                      [h \in 1..n |->
                                          IF ColPos(t, from(c, h)) = 0 THEN Missing
                                          ELSE t.data[ColPos(t, from(c, h))][row(h)]]]),
                            call)

\* df.reset_index(): the levels of the row index become the first columns,
\* under their names, and the rows are numbered anew.  The names are read off
\* the labels, so a frame without rows is left out
ResetIndex(id) ==
    /\ id \in Live
    /\ FreeIds # {}
    /\ NRows(frames[id]) > 0
    /\ LET t == frames[id]
           named == t.index[1].k = "key"
           names == IF named THEN t.index[1].v[1] ELSE <<Str("index")>>
           level(k) == [r \in 1..NRows(t) |-> IF named THEN t.index[r].v[2][k] ELSE t.index[r]]
       IN  Returns(Table(names \o t.columns, RangeIndex(NRows(t)),
                         [k \in 1..Len(names) |-> level(k)] \o t.data),
                   [op |-> "reset_index", in |-> id])

\* df[name] on columns with several levels: the columns under name, labelled
\* with their other levels; under their last level the one column is left,
\* its name the name it was selected by (as pd.DataFrame(series) names it)
SelectLevel(id, name) ==
    /\ id \in Live
    /\ FreeIds # {}
    /\ LET t == frames[id]
           call == [op |-> "select", in |-> id, level |-> name]
           at == {c \in 1..NCols(t) : t.columns[c].k = "key" /\ t.columns[c].v[2][1] = Str(name)}
           under == Ascending(at)
           rest(c) == IF Len(t.columns[c].v[2]) = 1 THEN Str(name)
                      ELSE Keyed(Tail(t.columns[c].v[1]), Tail(t.columns[c].v[2]))
       IN  IF at = {} THEN Raises("UnknownColumn", call)
           ELSE Returns(Table([k \in 1..Len(under) |-> rest(under[k])], t.index,
                              [k \in 1..Len(under) |-> t.data[under[k]]]),
                        call)

\* (a variant that leaves the prefix out)
Unprefixed(t, prefix) ==
    [c \in 1..NCols(t) |->
        Str(IF t.columns[c].k = "key" THEN t.columns[c].v[2][1].v ELSE t.columns[c].v)]

\* [prefix + col for col in df.columns]: the columns of a named Index give
\* their values
Prefixed(t, prefix) ==
    [c \in 1..NCols(t) |->
        Str(prefix \o (IF t.columns[c].k = "key" THEN t.columns[c].v[2][1].v ELSE t.columns[c].v))]

\* left.join(right, on = name, how = 'left') where name is the name of left's
\* row index: the rows of left, with the cells of the row of right that has
\* their label.  (A name that is a column of left is not part of the model.)
JoinOn(l, r, on) ==
    /\ l \in Live /\ r \in Live
    /\ FreeIds # {}
    /\ Str(on) \notin Range(frames[l].columns)
    /\ LET call == [op |-> "join", in |-> l, other |-> r, on |-> on]
       IN  IF \E i \in 1..NRows(frames[l]) :
                  ~(frames[l].index[i].k = "key" /\ frames[l].index[i].v[1] = <<Str(on)>>)
           THEN Raises("UnknownColumn", call)
           ELSE IF Overlap(frames[l], frames[r]) THEN Raises("ValueError", call)
           ELSE Returns(JoinRows(frames[l], frames[r]), call)

----------------------------------------------------------------------------
(* Inputs *)

\* every way to list some of the names S, each once
NameSeqs(S) == {s \in SeqsUpTo(S, Cardinality(S)) : NoDuplicates(s)}

Opt(S) == {None} \cup {Some(x) : x \in S}

Started(ls) ==
    /\ lists = ls
    /\ frames = <<>>
    /\ shared = {}
    /\ last = [op |-> "init", out |-> 0, err |-> "none"]

\* one frame is alive: the next call is made on it
One == Cardinality(Live) = 1
\* two frames are alive: the next call puts them together
Two == Cardinality(Live) = 2

----------------------------------------------------------------------------
(* The session: a frame is built from the lists; each call is made on the   *)
(* frame kept so far, and its result is kept or dropped                     *)

SessionLists ==
    {[age |-> <<Num(3), Num(5)>>, scores |-> <<Num(5), Missing>>],
     [age |-> <<Num(5)>>, scores |-> <<Num(3), Num(5)>>]}

SessionSlices ==
    {<<None, Some(1), None>>, <<Some(1), None, None>>, <<None, None, Some(-1)>>,
     <<None, None, Some(0)>>}

SessionMasks ==
    LET old == Cmp(Str("age"), ">", Num(3))
        low == Cmp(Str("scores"), "<=", Num(3))
    IN  {old, low, And(old, low), Or(old, Not(low)), Cmp(Str("rt"), ">", Num(3)),
         Cmp(Str("age"), "!=", Num(5))}

Init == \E ls \in SessionLists : Started(ls)

Next ==
    \/ Live = {} /\ \E names \in NameSeqs(DOMAIN lists) : DataFrame(names)
    \/ \E id \in Live : Del(id)
    \/ One /\ \E id \in Live, x \in SessionSlices : Slice(id, x[1], x[2], x[3])
    \/ One /\ \E id \in Live, n \in Opt({1}) : DfHead(id, n)
    \/ One /\ \E id \in Live, n \in Opt({1}) : DfTail(id, n)
    \/ One /\ \E id \in Live, p \in SessionMasks : Filter(id, p)
    \/ One /\ \E id \in Live : Centered(id)
    \/ One /\ \E id \in Live : OpinionStrength(id)
    \/ One /\ \E id \in Live : OpinionDirection(id)
    \/ One /\ \E id \in Live : RenameLastColumn(id)
    \/ One /\ \E id \in Live : RenameLastRow(id)

Spec == Init /\ [][Next]_vars

----------------------------------------------------------------------------
(* Frames derived from frames: each call returns a new frame, one or two    *)
(* frames are kept.  Only calls that return a new frame belong here; the    *)
(* assignments to df[...], df.columns and df.index are in Next.             *)

NextTables ==
    \/ Cardinality(Live) < 2 /\ \E names \in NameSeqs(DOMAIN lists) : DataFrame(names)
    \/ \E id \in Live : Del(id)
    \/ One /\ \E id \in Live, x \in SessionSlices : Slice(id, x[1], x[2], x[3])
    \/ One /\ \E id \in Live, n \in Opt({1}) : DfHead(id, n)
    \/ One /\ \E id \in Live, n \in Opt({1}) : DfTail(id, n)
    \/ One /\ \E id \in Live, p \in SessionMasks : Filter(id, p)
    \/ Two /\ \E l, r \in Live : Join(l, r)
    \/ Two /\ \E l, r \in Live : Concat(l, r)

SpecTables == Init /\ [][NextTables]_vars

----------------------------------------------------------------------------
(* Lists and the frame built from them: the lists change after the fact *)

ListCells == {Num(3), Missing}

InitLists == \E ls \in [{"age", "scores"} -> SeqsUpTo(ListCells, MaxLen)] : Started(ls)

NextLists ==
    \/ Live = {} /\ \E names \in NameSeqs(DOMAIN lists) : DataFrame(names)
    \/ \E l \in DOMAIN lists, i \in 1..MaxLen, v \in ListCells : ListSet(l, i, v)
    \/ \E l \in DOMAIN lists, v \in ListCells : ListAppend(l, v)
    \/ \E l \in DOMAIN lists, i \in 1..MaxLen : ListPop(l, i)
    \/ \E id \in Live : Del(id)

SpecLists == InitLists /\ [][NextLists]_vars

----------------------------------------------------------------------------
(* Slicing the chapter's age data: df[start:stop:step], df.head(n), df.tail(n) *)

AgeData == <<Num(17), Num(19), Num(21), Num(37), Num(18), Num(19), Num(47), Num(18), Num(19)>>

InitSlice == \E k \in 0..MaxRows : Started([age |-> SubSeq(AgeData, 1, k)])

NextSlice ==
    \/ Live = {} /\ DataFrame(<<"age">>)
    \/ One /\ \E id \in Live, a, b \in Opt(-MaxArg..MaxArg), s \in Opt(-MaxStep..MaxStep) : Slice(id, a, b, s)
    \/ One /\ \E id \in Live, n \in Opt(-1..MaxArg) : DfHead(id, n)
    \/ One /\ \E id \in Live, n \in Opt(-1..MaxArg) : DfTail(id, n)
    \/ last.out # 0 /\ ~One /\ Del(last.out)

SpecSlice == InitSlice /\ [][NextSlice]_vars

----------------------------------------------------------------------------
(* Subsets of a frame of ages and groups, some of them missing: df[mask] *)

AgeCells == {Num(17), Num(21), Missing}
GroupCells == {Str("control"), Str("test"), Missing}

\* the lists age and group, one entry per participant
ListsOf(rows) ==
    [age |-> [i \in 1..Len(rows) |-> rows[i][1]], group |-> [i \in 1..Len(rows) |-> rows[i][2]]]

FilterAtoms ==
    {Cmp(Str("age"), op, v) : op \in CmpOps, v \in {Num(21), Missing}}
    \cup {Cmp(Str("group"), op, Str("test")) : op \in CmpOps}
    \cup {Cmp(Str("group"), "<", Num(21)), Cmp(Str("age"), "==", Str("test")),
          Cmp(Str("group"), "!=", Missing), Cmp(Str("rt"), ">", Num(3))}

FilterCore ==
    {Cmp(Str("age"), "<", Num(21)), Cmp(Str("age"), "!=", Num(21)),
     Cmp(Str("group"), "==", Str("test")), Cmp(Str("age"), ">", Missing)}

FilterMasks ==
    FilterAtoms
    \cup {And(a, b) : a, b \in FilterCore} \cup {Or(a, b) : a, b \in FilterCore}
    \cup {Not(a) : a \in FilterCore} \cup {Not(And(a, Not(b))) : a, b \in FilterCore}
    \cup {And(And(a, b), Cmp(Str("group"), "==", Str("control"))) : a, b \in FilterCore}

InitFilter == \E rows \in SeqsUpTo(AgeCells \X GroupCells, MaxLen) : Started(ListsOf(rows))

NextFilter ==
    \/ Live = {} /\ DataFrame(<<"age", "group">>)
    \/ One /\ \E id \in Live, p \in FilterMasks : Filter(id, p)
    \/ last.out # 0 /\ ~One /\ Del(last.out)

SpecFilter == InitFilter /\ [][NextFilter]_vars

----------------------------------------------------------------------------
(* Splitting a frame of ages and groups in two with df[mask] and stacking   *)
(* the two parts with pd.concat                                             *)

SplitMasks ==
    {Cmp(Str("group"), op, v) : op \in {"==", "!="}, v \in {Str("test"), Str("control")}}
    \cup {Cmp(Str("age"), op, Num(21)) : op \in {"==", "!="}}

\* df, then df_test = df[...] and df_control = df[...]; df is dropped and the
\* two parts are concatenated
NextSplit ==
    \/ Live = {} /\ DataFrame(<<"age", "group">>)
    \/ (One \/ Two) /\ 1 \in Live /\ \E p \in SplitMasks : Filter(1, p)
    \/ Live = {1, 2, 3} /\ Del(1)
    \/ Live = {2, 3} /\ \E l, r \in Live : l # r /\ Concat(l, r)

SpecSplit == InitFilter /\ [][NextSplit]_vars

----------------------------------------------------------------------------
(* Cutting the age column into categories *)

CutCells == {Num(0), Num(1), Num(2), Num(4), Missing}

\* the column of ten values that is split at its median
OneToTen == [i \in 1..10 |-> Num(i)]

\* bins = [...], labels = [...]
CutArgs ==
    {<<<<0, 2, 4>>, Some(<<Str("young"), Str("adult")>>)>>,
     <<<<0, 2, 4>>, None>>,
     <<<<1, 2>>, None>>,
     <<<<0, 1, 2, 4>>, Some(<<Str("young"), Str("adult"), Str("older")>>)>>,
     <<<<0, 2, 4>>, Some(<<Str("young"), Str("adult"), Str("older")>>)>>,
     <<<<2, 1>>, None>>}

\* q = [...] as numerators over a denominator
QCutArgs ==
    {<<<<0, 1, 2>>, 2>>, <<<<0, 33, 66, 100>>, 100>>, <<<<0, 1>>, 2>>, <<<<1, 3>>, 4>>}

\* the columns that hold each of four ages once, in every order
FourAges == {col \in [1..4 -> CutCells \ {Missing}] : NoDuplicates(col)}

InitCut ==
    \E col \in SeqsUpTo(CutCells, MaxCut) \cup FourAges \cup {OneToTen} :
        Started([age |-> col])

\* the session goes on until a call raises
Going == last.err = "none"

NextCut ==
    \/ Live = {} /\ DataFrame(<<"age">>)
    \/ Going /\ \E id \in Live, k \in 0..MaxBins : CutBins(id, k)
    \/ Going /\ \E id \in Live, a \in CutArgs : CutEdges(id, a[1], a[2])
    \/ Going /\ \E id \in Live, a \in QCutArgs : QCut(id, a[1], a[2])

SpecCut == InitCut /\ [][NextCut]_vars

----------------------------------------------------------------------------
(* Tabulating: the frame of speakers and utterances is built, a table of    *)
(* counts is made from it                                                   *)

SpeakerCells == {Str("a"), Str("b"), Missing}
UtteranceCells == {Str("onk"), Str("pip"), Missing}

\* the six speakers that are counted as a:2, b:1, c:3
SixSpeakers ==
    [speaker |-> <<Str("a"), Str("a"), Str("b"), Str("c"), Str("c"), Str("c")>>,
     utterance |-> <<Str("pip"), Str("pip"), Str("onk"), Str("onk"), Str("pip"), Missing>>]

\* counts written down with their row totals: a row can be empty
CountLists == {[onk |-> col, rowtotals |-> col] : col \in [1..2 -> {Num(0), Num(1)}]}

InitTab ==
    \E ls \in {SixSpeakers} \cup CountLists \cup
              UNION {[speaker : [1..n -> SpeakerCells], utterance : [1..n -> UtteranceCells]] :
                     n \in 1..MaxTab} :
        Started(ls)

\* the last call made or relabelled a table of counts of speakers by utterances
Tabulated ==
    /\ last.err = "none"
    /\ \/ last.op = "crosstab" /\ last.cols # None
       \/ last.op \in {"columns", "index"}
       \/ last.op = "DataFrame" /\ last.names = <<"onk", "rowtotals">>

NextTab ==
    \/ Live = {} /\ \E names \in {<<"speaker", "utterance">>, <<"onk", "rowtotals">>} :
                       Range(names) \subseteq DOMAIN lists /\ DataFrame(names)
    \/ One /\ \E id \in Live, name \in {"speaker", "utterance", "age"} :
                 Crosstab(id, name, None, FALSE)
    \/ One /\ \E id \in Live, m \in BOOLEAN : Crosstab(id, "speaker", Some("utterance"), m)
    \/ Tabulated /\ RenameLastColumn(last.out)
    \/ Tabulated /\ RenameLastRow(last.out)
    \/ Tabulated /\ DivideByRow(last.out, Str("coltotals"))
    \/ Tabulated /\ DivByColumn(last.out, Str("rowtotals"))
    \/ Tabulated /\ DivByTotal(last.out, Str("coltotals"), Str("rowtotals"))

SpecTab == InitTab /\ [][NextTab]_vars

----------------------------------------------------------------------------
(* Reshaping: a wide frame of participants is built and melted *)

\* participants with their id, gender and two measurements
WideLists ==
    UNION {[id : [1..n -> {Num(1), Num(2)}],
            gender : [1..n -> {Str("female"), Str("male")}],
            alcohol : [1..n -> {Num(3), Missing}],
            caffeine : [1..n -> {Num(3), Num(4)}]] : n \in 0..MaxMelt}

InitMelt == \E ls \in WideLists : Started(ls)

NextMelt ==
    \/ Live = {} /\ \E names \in {<<"id", "gender", "alcohol", "caffeine">>,
                                  <<"alcohol", "id", "caffeine">>} : DataFrame(names)
    \/ One /\ \E id \in Live, idvars \in NameSeqs({"id", "gender"}) \cup {<<"rt">>} :
                 Melt(id, idvars)

SpecMelt == InitMelt /\ [][NextMelt]_vars

----------------------------------------------------------------------------
(* Wide to long and back: the wide frame is melted, and the long frame, or   *)
(* the wide frame itself, is pivoted                                         *)

\* index, columns, values: the names, and whether they were given as a list
PivotArgs ==
    {<<<<"id">>, "variable", [names |-> <<"value">>, list |-> FALSE]>>,
     <<<<"id", "gender">>, "variable", [names |-> <<"value">>, list |-> FALSE]>>,
     <<<<"id">>, "gender", [names |-> <<"alcohol", "caffeine">>, list |-> TRUE]>>,
     <<<<"id">>, "gender", [names |-> <<"caffeine">>, list |-> FALSE]>>}

NextPivot ==
    \/ Live = {} /\ \E names \in {<<"id", "gender", "alcohol", "caffeine">>,
                                  <<"gender", "id", "caffeine">>,
                                  <<"id", "gender">>} : DataFrame(names)
    \/ One /\ \E idvars \in {<<"id">>, <<"id", "gender">>} : Melt(1, idvars)
    \/ (One \/ Two) /\ \E a \in PivotArgs : Pivot(Cardinality(Live), a[1], a[2], a[3])

SpecPivot == InitMelt /\ [][NextPivot]_vars

----------------------------------------------------------------------------
(* The drug data in wide form: working memory capacity and reaction time    *)
(* under each drug, a row per participant; made long with wide_to_long      *)

DrugLists ==
    UNION {[id : [1..n -> {Num(1), Num(2)}],
            gender : [1..n -> {Str("female"), Str("male")}],
            WMC_alcohol : [1..n -> {Num(3), Missing}],
            WMC_caffeine : [1..n -> {Num(4)}],
            RT_alcohol : [1..n -> {Num(5)}],
            RT_caffeine : [1..n -> {Num(6)}]] : n \in 0..MaxWide}

InitLong == \E ls \in DrugLists : Started(ls)

\* the columns that were measured: all four, in two orders; with no RT under
\* caffeine; with no RT at all
DrugColumns ==
    {<<"id", "gender", "WMC_alcohol", "WMC_caffeine", "RT_alcohol", "RT_caffeine">>,
     <<"id", "gender", "RT_caffeine", "WMC_caffeine", "RT_alcohol", "WMC_alcohol">>,
     <<"id", "gender", "WMC_alcohol", "WMC_caffeine", "RT_alcohol">>,
     <<"id", "gender", "WMC_alcohol", "WMC_caffeine">>,
     <<"id", "gender">>}

NextLong ==
    \/ Live = {} /\ \E names \in DrugColumns : DataFrame(names)
    \/ One /\ \E stubs \in {<<"WMC", "RT">>, <<"RT", "WMC">>, <<"RT">>},
                 i \in {<<"id", "gender">>, <<"id">>, <<"rt">>} : WideToLong(1, stubs, i, "drug")
    \/ Two /\ Going /\ ResetIndex(2)

SpecLong == InitLong /\ [][NextLong]_vars

----------------------------------------------------------------------------
(* Long and back to wide: the notebook's cells from wide_to_long to the last *)
(* reset_index, in their order.  A frame is dropped when no later cell reads *)
(* it, so that four are alive at most.                                       *)

\* the frame is 1; its long form 2, with the index reset 3; pivoted 4;
\* then WMC is 1, RT 2, gender under each drug 3, gender 4; gender with WMC 3,
\* with WMC and RT 1, and with the index reset 4
NextBack ==
    \/ Live = {} /\ \E names \in {<<"id", "gender", "WMC_alcohol", "WMC_caffeine",
                                    "RT_alcohol", "RT_caffeine">>,
                                  <<"id", "gender", "RT_caffeine", "WMC_caffeine",
                                    "RT_alcohol", "WMC_alcohol">>} : DataFrame(names)
    \/ Going /\ last.op = "DataFrame" /\ WideToLong(1, <<"WMC", "RT">>, <<"id", "gender">>, "drug")
    \/ Going /\ last.op = "wide_to_long" /\ ResetIndex(2)
    \/ Going /\ last.op = "reset_index" /\ last.in = 2
             /\ Pivot(3, <<"id">>, "drug", [names |-> <<"gender", "WMC", "RT">>, list |-> TRUE])
    \/ Going /\ last.op = "pivot" /\ Del(1)
    \/ last.op = "del" /\ last.in = 1 /\ Live = {2, 3, 4} /\ NCols(frames[4]) > 1 /\ Del(2)
    \/ last.op = "del" /\ last.in = 2 /\ Live = {3, 4} /\ Del(3)
    \/ last.op = "del" /\ last.in = 3 /\ Live = {4} /\ SelectLevel(4, "WMC")
    \/ Going /\ last.op = "select" /\ last.level \in {"WMC", "RT"}
             /\ SetColumns(last.out, Prefixed(frames[last.out], last.level \o "_"))
    \/ Going /\ last.op = "columns" /\ Live = {1, 4} /\ SelectLevel(4, "RT")
    \/ Going /\ last.op = "columns" /\ Live = {1, 2, 4} /\ last.in = 2 /\ SelectLevel(4, "gender")
    \/ Going /\ last.op = "select" /\ last.level = "gender" /\ Del(4)
    \/ last.op = "del" /\ last.in = 4 /\ Live = {1, 2, 3} /\ SelectLevel(3, "alcohol")
    \/ Going /\ last.op = "select" /\ last.level = "alcohol" /\ Del(3)
    \/ last.op = "del" /\ last.in = 3 /\ Live = {1, 2, 4} /\ SetColumns(4, <<Str("gender")>>)
    \/ Going /\ last.op = "columns" /\ last.in = 4 /\ JoinOn(4, 1, "id")
    \/ Going /\ last.op = "join" /\ last.other = 1 /\ Del(1)
    \/ last.op = "del" /\ last.in = 1 /\ Live = {2, 3, 4} /\ NCols(frames[4]) = 1 /\ Del(4)
    \/ last.op = "del" /\ last.in = 4 /\ Live = {2, 3} /\ JoinOn(3, 2, "id")
    \/ Going /\ last.op = "join" /\ last.other = 2 /\ ResetIndex(1)

\* a row for each participant
InitBack == \E ls \in DrugLists : Len(ls.id) > 0 /\ NoDuplicates(ls.id) /\ Started(ls)

SpecBack == InitBack /\ [][NextBack]_vars

----------------------------------------------------------------------------
(* Properties *)

ListOps == {"list.setitem", "list.append", "list.pop"}

C2_SourceIndependent == [][last'.op \in ListOps => frames' = frames]_vars

\* C2's case: a list was changed after a frame was built from it, and the
\* frame's column of that name no longer equals the list
C2_Witness ==
    /\ last.op \in ListOps
    /\ \E id \in Live :
          /\ ColPos(frames[id], Str(last.list)) # 0
          /\ frames[id].data[ColPos(frames[id], Str(last.list))] # lists[last.list]

\* the frames that exist before and after a step
Surviving == DOMAIN frames \cap DOMAIN frames'
InPlaceOps == {"setitem", "columns", "index"}
NewFrameOps == {"DataFrame", "slice", "head", "tail", "filter", "join", "concat"}

C4_FailureAtomic ==
    [][last'.err # "none" => frames' = frames /\ lists' = lists /\ shared' = shared]_vars

\* C4's case: df['centered'] = df['scores']-4 has failed on a frame that has
\* no column scores
C4_Witness ==
    /\ last.op = "setitem" /\ last.err = "UnknownColumn"
    /\ last.in \in Live /\ frames[last.in].columns = <<Str("age")>>
    /\ NRows(frames[last.in]) = 2

\* C5: pd.DataFrame raises (ShapeMismatch, building nothing) whenever two of the
\* lists given differ in length, and otherwise returns a frame whose row count
\* is the lists' common length.
C5_CtorShape ==
    last.op = "DataFrame" =>
        LET ns == last.names
        IN  IF \E i, j \in 1..Len(ns) : Len(lists[ns[i]]) # Len(lists[ns[j]])
            THEN last.err = "ShapeMismatch" /\ last.out = 0
            ELSE /\ last.err = "none"
                 /\ last.out \in Live
                 /\ \A j \in 1..Len(ns) : NRows(frames[last.out]) = Len(lists[ns[j]])
                 /\ NCols(frames[last.out]) = Len(ns)

\* C5's case: the constructor was given lists of different lengths
C5_Witness ==
    /\ last.op = "DataFrame"
    /\ \E i, j \in 1..Len(last.names) : Len(lists[last.names[i]]) # Len(lists[last.names[j]])

\* the frame the last call was made on, and the frame it returned
Operand == frames[last.in]
Result == frames[last.out]
Returned(op) == last.op = op /\ last.err = "none"

\* the positions 1..m in order
FirstN(m) == [i \in 1..m |-> i]
\* the last m of n positions in order
LastN(n, m) == [i \in 1..m |-> n - m + i]

\* C6: for n >= 0, df[0:n] has exactly min(n, rows) rows, the first min(n, rows)
\* rows of df in their order; the row at position n is not among them.
C6_SliceFromZero ==
    (last.op = "slice" /\ last.start = Some(0) /\ last.stop # None /\ last.step \in {None, Some(1)})
    => (last.stop[1] >= 0 =>
          LET n == last.stop[1]
              m == IF n < NRows(Operand) THEN n ELSE NRows(Operand)
          IN  /\ last.err = "none"
              /\ NRows(Result) = m
              /\ Result = TakeRows(Operand, FirstN(m))
              /\ n < NRows(Operand) => Operand.index[n + 1] \notin Range(Result.index))

\* C6's case: df[0:4] on a frame of more than four rows
C6_Witness ==
    /\ Returned("slice") /\ last.start = Some(0) /\ last.stop = Some(4) /\ last.step = None
    /\ NRows(Operand) > 4

\* position x counted from the end when negative: -k is n - k
FromEnd(n, x) == IF x < 0 THEN n + x ELSE x

\* the positions (0-based) first, first + step, first + 2*step, ... of a sequence of
\* n items that lie before bound in the direction of step, in that order
Stride(n, first, bound, step) ==
    LET P == {p \in 0..(n - 1) :
                /\ (p - first) % (IF step < 0 THEN -step ELSE step) = 0
                /\ IF step < 0 THEN p <= first /\ p > bound ELSE p >= first /\ p < bound}
        Nth(i) == CHOOSE p \in P :
                    Cardinality({q \in P : IF step < 0 THEN q > p ELSE q < p}) = i - 1
    IN  [i \in 1..Cardinality(P) |-> Nth(i) + 1]

\* start and stop as the statement reads them: an omitted start is the first item
\* in the direction of step, an omitted stop lies beyond the last
ReadStart(n, start, step) ==
    IF start = None THEN (IF step < 0 THEN n - 1 ELSE 0) ELSE FromEnd(n, start[1])
ReadStop(n, stop, step) ==
    IF stop = None THEN (IF step < 0 THEN -1 ELSE n) ELSE FromEnd(n, stop[1])

Clamp(x, lo, hi) == IF x < lo THEN lo ELSE IF x > hi THEN hi ELSE x
\* a start or stop beyond either end of the table is taken to be that end
ToEnd(n, x, step) == IF step < 0 THEN Clamp(x, -1, n - 1) ELSE Clamp(x, 0, n)

\* C7 as stated: df[start:stop:step] returns exactly the rows at positions start,
\* start+step, start+2*step, ... that lie before stop in the direction of step,
\* where a negative start or stop -k is position rows-k.
C7_AsStated ==
    Returned("slice") =>
        LET n == NRows(Operand)
            st == StepOf(last.step)
        IN  Result = TakeRows(Operand,
                Stride(n, ReadStart(n, last.start, st), ReadStop(n, last.stop, st), st))

\* C7 (amended): df[start:stop:step] returns exactly the rows at positions s,
\* s+step, s+2*step, ... that lie before e in the direction of step, where s and
\* e are start and stop with a negative -k read as rows-k and a value beyond
\* either end of the table taken to be that end; df[-k:rows] returns the rows
\* of df[rows-k:rows] for 1 <= k <= rows; a negative step returns the rows in
\* descending position order.
C7_Slice ==
    Returned("slice") =>
        LET n == NRows(Operand)
            st == StepOf(last.step)
            s == ToEnd(n, ReadStart(n, last.start, st), st)
            e == ToEnd(n, ReadStop(n, last.stop, st), st)
        IN  /\ Result = TakeRows(Operand, Stride(n, s, e, st))
            /\ (/\ last.start # None /\ last.stop = Some(n) /\ st = 1
                /\ -last.start[1] \in 1..n)
               => Result = TakeRows(Operand, LastN(n, -last.start[1]))
            /\ st < 0 =>
                 \A i \in 1..(NRows(Result) - 1) : Result.index[i].v > Result.index[i + 1].v

\* C7's case: a negative step from a start beyond the end of the table
C7_Witness ==
    /\ Returned("slice") /\ last.step = Some(-2) /\ last.start # None /\ last.stop = Some(-MaxArg)
    /\ last.start[1] > NRows(Operand)
    /\ NRows(Operand) = 5 /\ NRows(Result) = 3

\* C8: for n >= 0, head(n) returns the first min(n, rows) rows and tail(n) the
\* last min(n, rows) rows, in their order; neither fails when n > rows; with no
\* argument n is 5.
C8_HeadTail ==
    last.op \in {"head", "tail"} =>
        LET n == IF last.n = None THEN 5 ELSE last.n[1]
            m == IF n < NRows(Operand) THEN n ELSE NRows(Operand)
        IN  n >= 0 =>
              /\ last.err = "none"
              /\ last.op = "head" => Result = TakeRows(Operand, FirstN(m))
              /\ last.op = "tail" => Result = TakeRows(Operand, LastN(NRows(Operand), m))

\* C8's case: tail() with no argument on a frame of more than five rows
C8_Witness ==
    /\ Returned("tail") /\ last.n = None
    /\ NRows(Operand) > 5 /\ NRows(Result) = 5

\* whether column comparison c holds of row i of t
HoldsOf(t, i, c) == Compare(c.op, t.data[ColPos(t, c.col)][i], c.val)

RECURSIVE Holds(_, _, _)
\* whether predicate p, built with AND, OR and NOT, is true of row i of t
Holds(t, i, p) ==
    CASE p.t = "cmp" -> HoldsOf(t, i, p)
      [] p.t = "not" -> ~Holds(t, i, p.p)
      [] p.t = "and" -> Holds(t, i, p.l) /\ Holds(t, i, p.r)
      [] p.t = "or" -> Holds(t, i, p.l) \/ Holds(t, i, p.r)

\* C9: df[mask] returns exactly the rows for which the predicate is true, in
\* their original relative order, each with the row label it had (labels are
\* kept, not renumbered); also for predicates built with AND, OR and NOT.
C9_Filter ==
    Returned("filter") =>
        LET kept == {i \in 1..NRows(Operand) : Holds(Operand, i, last.pred)}
        IN  /\ NRows(Result) = Cardinality(kept)
            /\ Result.columns = Operand.columns
            /\ \A j \in 1..NRows(Result) :
                  /\ Result.index[j] = Operand.index[Ascending(kept)[j]]
                  /\ ToRowMajorList(Result)[j] = ToRowMajorList(Operand)[Ascending(kept)[j]]

\* C9's case: a predicate with AND and NOT drops the first row and keeps the
\* second, which keeps its label 1
C9_Witness ==
    /\ Returned("filter") /\ last.pred.t = "not"
    /\ NRows(Operand) = 2 /\ NRows(Result) = 1
    /\ Result.index = <<Num(1)>>

\* the cells of the column a single comparison reads
Compared == Operand.data[ColPos(Operand, last.pred.col)]
OneComparison ==
    last.op = "filter" /\ last.pred.t = "cmp" /\ ColPos(Operand, last.pred.col) # 0
\* row i of the operand is among the rows returned (row labels are distinct)
Kept(i) == Operand.index[i] \in Range(Result.index)

\* C10 as stated: under each of <, >, ==, !=, <=, >= a comparison with a Missing
\* operand is false and raises nothing, so a filter on one column comparison
\* never keeps a row whose compared cell is Missing.
C10_AsStated ==
    OneComparison =>
        /\ (IsMissing(last.pred.val) \/ \A i \in 1..NRows(Operand) : IsMissing(Compared[i]))
           => last.err = "none"
        /\ last.err = "none" =>
             \A i \in 1..NRows(Operand) :
                (IsMissing(Compared[i]) \/ IsMissing(last.pred.val)) => ~Kept(i)

\* C10 (amended): under <, >, ==, <=, >= a comparison with a Missing operand is
\* false, under != it is true, and none raises; so a filter on one column
\* comparison with one of the five never keeps a row whose compared cell is
\* Missing, and one with != keeps every such row.
C10_MissingCompare ==
    OneComparison =>
        /\ (IsMissing(last.pred.val) \/ \A i \in 1..NRows(Operand) : IsMissing(Compared[i]))
           => last.err = "none"
        /\ last.err = "none" =>
             \A i \in 1..NRows(Operand) :
                (IsMissing(Compared[i]) \/ IsMissing(last.pred.val))
                => (Kept(i) <=> last.pred.op = "!=")

\* C10's case: age != 21 keeps the row whose age is missing and drops the row
\* whose age is 21
C10_Witness ==
    /\ OneComparison /\ last.err = "none"
    /\ last.pred = Cmp(Str("age"), "!=", Num(21))
    /\ Compared = <<Num(21), Missing>>
    /\ Result.index = <<Num(1)>>

\* the column a cut read and the column of categories it wrote
CutInput == frames[last.in].data[ColPos(frames[last.in], Str("age"))]
CutOutput == frames[last.in].data[ColPos(frames[last.in], Str("categories"))]
\* pd.cut(bins = k) has returned
CutByNumber == last.op = "cut" /\ last.err = "none" /\ "k" \in DOMAIN last
\* pd.cut(bins = [...]) has been called
CutByEdges == last.op = "cut" /\ "edges" \in DOMAIN last
\* the labels that occur in the cut's result
UsedLabels == {CutOutput[i] : i \in {j \in 1..Len(CutOutput) : ~IsMissing(CutOutput[j])}}
\* x lies in the range a label shows: lo < x <= hi
InRange(x, label) == label.v[1] < x * label.v[3] /\ x * label.v[3] <= label.v[2]
\* the bins whose range holds x
BinsHolding(x, cats) == {b \in 1..Len(cats) : InRange(x, cats[b])}
\* every number of the input lies in exactly one bin and carries its label
EachInOneBin ==
    \A i \in 1..Len(CutInput) :
        IsNum(CutInput[i]) =>
            /\ Cardinality(BinsHolding(CutInput[i].v, last.cats)) = 1
            /\ \E b \in BinsHolding(CutInput[i].v, last.cats) : CutOutput[i] = last.cats[b]

\* C11 as stated: pd.cut(bins = k) on a column of at least k distinct values
\* with min < max produces exactly k distinct labels, and every value maps to
\* exactly one bin.
C11_AsStated ==
    (CutByNumber /\ Cardinality(Numbers(CutInput)) >= last.k
       /\ MinOf(Numbers(CutInput)) < MaxOf(Numbers(CutInput)))
    => Cardinality(UsedLabels) = last.k /\ EachInOneBin

\* C11 (amended): pd.cut(bins = k) on a column with min < max defines exactly k
\* bins with k distinct labels, and every value maps to exactly one of them; the
\* labels that occur in the result are among these k and can be fewer than k
\* even when the column has k or more distinct values (a bin can be empty).
C11_FixedWidth ==
    (CutByNumber /\ MinOf(Numbers(CutInput)) < MaxOf(Numbers(CutInput)))
    => /\ Len(last.cats) = last.k
       /\ NoDuplicates(last.cats)
       /\ EachInOneBin
       /\ UsedLabels \subseteq Range(last.cats)

\* C11's case: three bins over 0, 1 and 4: the middle bin is empty
C11_Witness ==
    /\ CutByNumber /\ last.k = 3
    /\ CutInput = <<Num(0), Num(1), Num(4)>>
    /\ Cardinality(UsedLabels) = 2

\* pd.cut(bins = [...]) has returned
CutByEdgesDone == CutByEdges /\ last.err = "none"
\* the label the cut gave to cell i is the label of bin b
LabelledAs(i, b) == CutOutput[i] = last.cats[b]

\* C12 as stated: with edges e0 < e1 < ... < em a value equal to e0 maps to the
\* first bin, a value equal to an interior edge to the bin that ends there, a
\* value equal to em to the last bin, and no value belongs to two bins; this for
\* pd.cut(bins = [...]) and, with e0 = min < em = max, for pd.cut(bins = k).
C12_EdgePolicy ==
    /\ CutByEdgesDone =>
          \A i \in 1..Len(CutInput) :
              IsNum(CutInput[i]) =>
                  /\ CutInput[i].v = last.edges[1] => LabelledAs(i, 1)
                  /\ \A j \in 2..Len(last.edges) :
                         CutInput[i].v = last.edges[j] => LabelledAs(i, j - 1)
                  /\ Cardinality({b \in 1..(Len(last.edges) - 1) :
                         last.edges[b] < CutInput[i].v
                         /\ CutInput[i].v <= last.edges[b + 1]}) <= 1
    /\ (CutByNumber /\ MinOf(Numbers(CutInput)) < MaxOf(Numbers(CutInput))) =>
          \A i \in 1..Len(CutInput) :
              IsNum(CutInput[i]) =>
                  /\ CutInput[i].v = MinOf(Numbers(CutInput)) => LabelledAs(i, 1)
                  /\ CutInput[i].v = MaxOf(Numbers(CutInput)) => LabelledAs(i, last.k)
                  /\ \A b \in 1..last.k :
                         CutInput[i].v * last.cats[b].v[3] = last.cats[b].v[2]
                             => LabelledAs(i, b)
                  /\ Cardinality(BinsHolding(CutInput[i].v, last.cats)) <= 1

\* the arguments of pd.cut(bins = [...]) are well formed
CutArgsValid ==
    /\ StrictlyIncreasing(last.edges)
    /\ last.labels # None => Len(last.labels[1]) = Len(last.edges) - 1

\* C13: pd.cut(bins = [...]) maps every value below the first edge or above the
\* last edge to Missing, fails only because of its arguments and never because
\* of such a value, and its result is as long as its input.
C13_OutOfRange ==
    CutByEdges =>
        /\ CutArgsValid => last.err = "none"
        /\ last.err = "none" =>
               /\ Len(CutOutput) = Len(CutInput)
               /\ \A i \in 1..Len(CutInput) :
                      (IsNum(CutInput[i])
                         /\ (CutInput[i].v < last.edges[1]
                               \/ CutInput[i].v > last.edges[Len(last.edges)]))
                      => IsMissing(CutOutput[i])

\* C13's case: 0, 2 and 4 cut at the edges 1, 2: one value below, one above
C13_Witness ==
    /\ CutByEdgesDone /\ last.edges = <<1, 2>>
    /\ CutInput = <<Num(0), Num(2), Num(4)>>
    /\ IsMissing(CutOutput[1]) /\ ~IsMissing(CutOutput[2]) /\ IsMissing(CutOutput[3])

\* pd.qcut has returned
QCutDone == last.op = "qcut" /\ last.err = "none"
\* the cells of the result that carry the label of bin b
CellsIn(b) == {i \in 1..Len(CutOutput) : CutOutput[i] = last.cats[b]}
\* how many values of the input are at most x
RankOf(x) == Cardinality({v \in Numbers(CutInput) : v <= x})

\* C14: pd.qcut with q = [0, .5, 1] puts 5 of the values 1..10 in the first bin
\* and 5 in the second, and of a column of 2n distinct values the n smallest in
\* the first bin and the n largest in the second.
C14_MedianSplit ==
    (QCutDone /\ last.q = <<0, 1, 2>> /\ last.den = 2) =>
        /\ CutInput = OneToTen =>
               Cardinality(CellsIn(1)) = 5 /\ Cardinality(CellsIn(2)) = 5
        /\ (CountNumbers(CutInput) = Len(CutInput)
              /\ Cardinality(Numbers(CutInput)) = Len(CutInput)
              /\ Len(CutInput) % 2 = 0) =>
               /\ CellsIn(1) = {i \in 1..Len(CutInput) :
                                   2 * RankOf(CutInput[i].v) <= Len(CutInput)}
               /\ CellsIn(2) = {i \in 1..Len(CutInput) :
                                   2 * RankOf(CutInput[i].v) > Len(CutInput)}

\* C14's case: 1..10 split at the median 5.5
C14_Witness ==
    /\ QCutDone /\ last.q = <<0, 1, 2>> /\ last.den = 2
    /\ CutInput = OneToTen
    /\ CellsIn(1) = 1..5 /\ CellsIn(2) = 6..10

\* the result is missing exactly where the input is
MissingOnlyWhereInput ==
    \A i \in 1..Len(CutInput) : IsMissing(CutOutput[i]) <=> IsMissing(CutInput[i])

\* C15 as stated: after pd.qcut with any increasing q in [0, 1], and after
\* pd.cut(bins = k), every non-missing value has a bin: the result is Missing
\* only where the input is.
C15_AsStated == (QCutDone \/ CutByNumber) => MissingOnlyWhereInput

\* C15 (amended): after pd.qcut with an increasing q that starts at 0 and ends
\* at 1, and after pd.cut(bins = k), every non-missing value has a bin: the
\* result is Missing only where the input is.
C15_NoneOutside ==
    ((QCutDone /\ last.q[1] = 0 /\ last.q[Len(last.q)] = last.den) \/ CutByNumber)
    => MissingOnlyWhereInput

\* C15's case: terciles of a column with a missing cell
C15_Witness ==
    /\ QCutDone /\ last.q = <<0, 33, 66, 100>>
    /\ CutInput = <<Num(0), Missing, Num(4)>>
    /\ ~IsMissing(CutOutput[1]) /\ IsMissing(CutOutput[2]) /\ ~IsMissing(CutOutput[3])

\* pd.crosstab(index = df[name], columns = "count") has returned
Counted == Returned("crosstab") /\ last.cols = None
\* the column that was tabulated
TabInput == Operand.data[ColPos(Operand, Str(last.rows))]
\* how often value v occurs in col
Occurrences(col, v) == Cardinality({i \in 1..Len(col) : col[i] = v})
RECURSIVE Total(_)
\* the sum of a sequence of numbers
Total(cells) == IF cells = <<>> THEN 0 ELSE Head(cells).v + Total(Tail(cells))
\* the row labels are in ascending order
RowsAscending(t) ==
    \A i, j \in 1..NRows(t) :
        (i < j /\ ~IsMissing(t.index[i]) /\ ~IsMissing(t.index[j]))
        => Key(t.index[i]) < Key(t.index[j])
\* the frequency table has its values in ascending order, a:2, b:1, c:3 for
\* the six speakers, and in each row the number of occurrences of its value
CountsRight ==
    /\ NoDuplicates(Result.index)
    /\ RowsAscending(Result)
    /\ Result.columns = <<Str("count")>>
    /\ \A r \in 1..NRows(Result) :
           Result.data[1][r] = Num(Occurrences(TabInput, Result.index[r]))
    /\ TabInput = SixSpeakers.speaker =>
           /\ Result.index = <<Str("a"), Str("b"), Str("c")>>
           /\ Result.data[1] = <<Num(2), Num(1), Num(3)>>

\* C16 as stated: the frequency table has one row per distinct value of the
\* column, the Missing cells counted in one row of their own, each count the
\* number of occurrences, the counts summing to the column's length, the rows in
\* a fixed order; a:2, b:1, c:3 for [a,a,b,c,c,c].
C16_AsStated ==
    Counted =>
        /\ Range(Result.index) = Range(TabInput)
        /\ Total(Result.data[1]) = Len(TabInput)
        /\ CountsRight

\* C16 (amended): the frequency table has one row per distinct non-missing value
\* of the column and no row for Missing cells, each count the number of
\* occurrences, the counts summing to the number of non-missing cells, the rows
\* in ascending order of the values; a:2, b:1, c:3 for [a,a,b,c,c,c].
C16_Frequency ==
    Counted =>
        /\ Range(Result.index) = Range(TabInput) \ {Missing}
        /\ Total(Result.data[1]) = Len(TabInput) - Occurrences(TabInput, Missing)
        /\ CountsRight

\* C16's case: the six speakers counted
C16_Witness ==
    /\ Counted
    /\ TabInput = <<Str("a"), Str("a"), Str("b"), Str("c"), Str("c"), Str("c")>>
    /\ ToRowMajorList(Result) = <<<<Num(2)>>, <<Num(1)>>, <<Num(3)>>>>

\* pd.crosstab(index = df[r], columns = df[c], margins = True) has returned
Crossed == Returned("crosstab") /\ last.cols # None /\ last.margins
RowKey == Operand.data[ColPos(Operand, Str(last.rows))]
ColKey == Operand.data[ColPos(Operand, Str(last.cols[1]))]
\* row i of the table without its last cell, column j without its last cell
InnerRow(t, i) == [j \in 1..(NCols(t) - 1) |-> t.data[j][i]]
InnerColumn(t, j) == [i \in 1..(NRows(t) - 1) |-> t.data[j][i]]
\* the cell in the last row and the last column
GrandTotal(t) == t.data[NCols(t)][NRows(t)].v
\* each cell is a count of co-occurrences and each margin a sum
CellsAndMargins ==
    /\ \A i \in 1..(NRows(Result) - 1), j \in 1..(NCols(Result) - 1) :
           Result.data[j][i] =
               Num(Cardinality({h \in 1..Len(RowKey) : /\ RowKey[h] = Result.index[i]
                                                       /\ ColKey[h] = Result.columns[j]}))
    /\ \A i \in 1..NRows(Result) :
           Result.data[NCols(Result)][i].v = Total(InnerRow(Result, i))
    /\ \A j \in 1..NCols(Result) :
           Result.data[j][NRows(Result)].v = Total(InnerColumn(Result, j))
    /\ GrandTotal(Result) = Total(InnerColumn(Result, NCols(Result)))
    /\ GrandTotal(Result) = Total(InnerRow(Result, NRows(Result)))

\* C17 as stated: with margins every cell (r, c) is the number of positions
\* where the row key is r and the column key is c, each margin cell is the sum
\* of its row or column, and the grand total is the common length of the keys
\* and the sum of either margin.
C17_AsStated == Crossed => CellsAndMargins /\ GrandTotal(Result) = Len(RowKey)

\* C17 (amended): with margins every cell (r, c) is the number of positions
\* where the row key is r and the column key is c, each margin cell is the sum
\* of its row or column, and the grand total is the sum of either margin and the
\* number of positions where neither key is Missing: the common length of the
\* keys when they have no Missing cell.
C17_Margins ==
    Crossed => CellsAndMargins /\ GrandTotal(Result) = Cardinality(Complete(RowKey, ColKey))

\* C17's case: two speakers and two utterances, one row without a speaker
C17_Witness ==
    /\ Crossed
    /\ RowKey = <<Str("a"), Str("b"), Missing>>
    /\ ColKey = <<Str("pip"), Str("onk"), Str("pip")>>
    /\ ToRowMajorList(Result) = <<<<Num(0), Num(1), Num(1)>>,
                                  <<Num(1), Num(0), Num(1)>>,
                                  <<Num(1), Num(1), Num(2)>>>>

\* tabs/tabs.loc['coltotals'] has been called
ColDivided == last.op = "truediv"
\* the last row of t is labelled 'coltotals' and holds the sums of the columns
TotalsRow(t) ==
    /\ RowPos(t, Str("coltotals")) = NRows(t)
    /\ \A j \in 1..NCols(t) : t.data[j][NRows(t)].v = Total(InnerColumn(t, j))
\* a proportion as numerator and denominator
Fraction(c) == IF c.k = "ratio" THEN c.v ELSE <<c.v, 1>>
RECURSIVE SumOf(_)
\* the sum of a sequence of proportions, as numerator and denominator
SumOf(cells) ==
    IF cells = <<>> THEN <<0, 1>>
    ELSE LET a == Fraction(Head(cells))
             b == SumOf(Tail(cells))
         IN  <<a[1] * b[2] + b[1] * a[2], a[2] * b[2]>>
\* the cells are proportions that add up to 1
SumsToOne(cells) ==
    /\ \A i \in 1..Len(cells) : cells[i].k \in {"num", "ratio"}
    /\ SumOf(cells)[1] = SumOf(cells)[2]
AllMissing(cells) == \A i \in 1..Len(cells) : IsMissing(cells[i])
\* the cells of column j that are not totals: all but the last when the last
\* row is labelled 'coltotals'
DataColumn(t, j) ==
    IF RowPos(t, Str("coltotals")) = NRows(t) THEN InnerColumn(t, j) ELSE t.data[j]

\* the table divided was made by pd.crosstab from speakers and utterances
OfCrosstab == "speaker" \in DOMAIN lists

\* C18 as stated: for every table of counts made by pd.crosstab, with margins
\* or without, the division by the column totals returns a table in which
\* every column sums to 1 or is all Missing.
C18_AsStated ==
    (ColDivided /\ OfCrosstab) =>
        /\ last.err = "none"
        /\ \A j \in 1..NCols(Result) :
               SumsToOne(DataColumn(Result, j)) \/ AllMissing(Result.data[j])

\* C18 (amended): the division by the column totals fails with LabelNotFound on
\* a table with no row 'coltotals' and never otherwise; on a table whose last
\* row 'coltotals' holds the sums of the columns, as one built with margins
\* does, the cells above the totals of every column sum to 1 and its total
\* becomes 1, or the column is all Missing if its total was 0.
C18_ColumnProportions ==
    ColDivided =>
        /\ last.err = (IF Str("coltotals") \in Range(Operand.index)
                       THEN "none" ELSE "LabelNotFound")
        /\ (last.err = "none" /\ TotalsRow(Operand)) =>
               \A j \in 1..NCols(Result) :
                   IF Operand.data[j][NRows(Operand)].v = 0
                   THEN AllMissing(Result.data[j])
                   ELSE /\ SumsToOne(InnerColumn(Result, j))
                        /\ Result.data[j][NRows(Result)] = Num(1)

\* C18's case: the counts of a table with margins divided by their totals
C18_Witness ==
    /\ ColDivided /\ last.err = "none"
    /\ ToRowMajorList(Operand) = <<<<Num(1), Num(1), Num(2)>>,
                                   <<Num(1), Num(0), Num(1)>>,
                                   <<Num(2), Num(1), Num(3)>>>>
    /\ Operand.index[3] = Str("coltotals")
    /\ ToRowMajorList(Result) = <<<<Ratio(1, 2), Num(1), Ratio(2, 3)>>,
                                  <<Ratio(1, 2), Num(0), Ratio(1, 3)>>,
                                  <<Num(1), Num(1), Num(1)>>>>

\* tabs.div(tabs["rowtotals"], axis=0) has returned, the division by the grand
\* total has returned
RowDivided == Returned("div")
TotalDivided == Returned("div.total")
\* the last column of t is named 'rowtotals' and holds the sums of the rows
TotalsColumn(t) ==
    /\ ColPos(t, Str("rowtotals")) = NCols(t)
    /\ \A i \in 1..NRows(t) : t.data[NCols(t)][i].v = Total(InnerRow(t, i))
\* the cells of t that are not totals, row after row
RECURSIVE InnerCells(_, _)
InnerCells(t, i) == IF i = 0 THEN <<>> ELSE InnerCells(t, i - 1) \o InnerRow(t, i)

Melted == Returned("melt")
\* the id columns and the melted columns of the frame that was melted
IdColumns == {ColPos(Operand, Str(last.idvars[k])) : k \in 1..Len(last.idvars)}
MeltedColumns == (1..NCols(Operand)) \ IdColumns
\* what the long frame is to hold for row i and column j of the wide frame:
\* the id cells of the row, the name of the column, the cell
LongRow(i, j) ==
    [k \in 1..Len(last.idvars) |-> Operand.data[ColPos(Operand, Str(last.idvars[k]))][i]]
        \o <<Operand.columns[j], Operand.data[j][i]>>

\* C20: pd.melt returns one row per pair of a row and a column that is not an
\* id column, rowCount * (colCount - |idColumns|) rows in all; each row holds
\* the id cells of its row, the name of its column and the cell of that column
\* in that row.
C20_Melt ==
    Melted =>
        /\ NRows(Result) = NRows(Operand) * (NCols(Operand) - Len(last.idvars))
        /\ Result.columns = [k \in 1..Len(last.idvars) |-> Str(last.idvars[k])]
                                \o <<Str("variable"), Str("value")>>
        /\ \A i \in 1..NRows(Operand), j \in MeltedColumns :
               Cardinality({r \in 1..NRows(Result) : ToRowMajorList(Result)[r] = LongRow(i, j)})
                   = Cardinality({p \in (1..NRows(Operand)) \X MeltedColumns :
                                     LongRow(p[1], p[2]) = LongRow(i, j)})
        /\ \A r \in 1..NRows(Result) :
               \E i \in 1..NRows(Operand), j \in MeltedColumns :
                   ToRowMajorList(Result)[r] = LongRow(i, j)

\* C20's case: two participants and two measurements melted into four rows
C20_Witness ==
    /\ Melted /\ last.idvars = <<"id", "gender">>
    /\ ToRowMajorList(Operand) = <<<<Num(1), Str("female"), Num(3), Num(4)>>,
                                   <<Num(2), Str("male"), Missing, Num(3)>>>>
    /\ ToRowMajorList(Result) =
           <<<<Num(1), Str("female"), Str("alcohol"), Num(3)>>,
             <<Num(2), Str("male"), Str("alcohol"), Missing>>,
             <<Num(1), Str("female"), Str("caffeine"), Num(4)>>,
             <<Num(2), Str("male"), Str("caffeine"), Num(3)>>>>

\* the second frame of a join or a concat
Other == frames[last.other]
\* left.join(right) has returned and no row label of right repeats
JoinedOnUnique == Returned("join") /\ NoDuplicates(Other.index)

\* C26: a left join on a key that is unique in right returns one row per row
\* of left, in left's order, with left's cells unchanged; a row of left without
\* a match holds Missing in every column of right, a matched row holds the
\* cells of the row of right that matches.
C26_LeftJoin ==
    JoinedOnUnique =>
        /\ Result.index = Operand.index
        /\ Result.columns = Operand.columns \o Other.columns
        /\ \A j \in 1..NCols(Operand) : Result.data[j] = Operand.data[j]
        /\ \A i \in 1..NRows(Operand), j \in 1..NCols(Other) :
               /\ (\A h \in 1..NRows(Other) : Other.index[h] # Operand.index[i])
                      => IsMissing(Result.data[NCols(Operand) + j][i])
               /\ \A h \in 1..NRows(Other) :
                      Other.index[h] = Operand.index[i]
                          => Result.data[NCols(Operand) + j][i] = Other.data[j][h]

\* C26's case: right lacks the label of a row of left
C26_Witness ==
    /\ JoinedOnUnique
    /\ Operand.index = <<Num(0), Num(1)>>
    /\ Other.index = <<Num(1)>>
    /\ Other.data[1][1] # Missing
    /\ Result.data[NCols(Operand) + 1] = <<Missing, Other.data[1][1]>>

\* pd.concat([a, b]) has been called
Concatenated == last.op = "concat"
SameColumnNames == Range(Operand.columns) = Range(Other.columns)
\* row i of t is row h of the result in every column t has, and Missing in the
\* columns t lacks
RowKept(t, i, h) ==
    \A j \in 1..NCols(Result) :
        Result.data[j][h] =
            (IF ColPos(t, Result.columns[j]) = 0 THEN Missing
             ELSE t.data[ColPos(t, Result.columns[j])][i])
\* the rows of the first frame in order, then those of the second, with the
\* row labels they had
Stacked ==
    /\ last.err = "none"
    /\ NRows(Result) = NRows(Operand) + NRows(Other)
    /\ Result.index = Operand.index \o Other.index
    /\ Range(Result.columns) = Range(Operand.columns) \cup Range(Other.columns)
    /\ NoDuplicates(Result.columns)
    /\ \A i \in 1..NRows(Operand) : RowKept(Operand, i, i)
    /\ \A i \in 1..NRows(Other) : RowKept(Other, i, NRows(Operand) + i)

\* C27 as stated: pd.concat of frames with the same column names returns their
\* rows in order, first frame first, with the row labels they had, repeats
\* kept; with different column names it fails with SchemaMismatch (stated
\* here of frames that have a column).
C27_AsStated ==
    (Concatenated /\ NCols(Operand) > 0 /\ NCols(Other) > 0) =>
        IF SameColumnNames THEN Stacked ELSE last.err = "SchemaMismatch"

\* C27 (amended): pd.concat of frames with the same column names returns their
\* rows in order, first frame first, with the row labels they had, repeats
\* kept; with different column names it does not fail: the result has every
\* column of either frame, and a row is Missing in the columns its frame lacks.
C27_Concat == Concatenated => Stacked

\* C27's case: a frame stacked on its own first row, whose label then repeats
C27_Witness ==
    /\ Concatenated /\ SameColumnNames
    /\ Operand.index = <<Num(0), Num(1)>>
    /\ Other.index = <<Num(0)>>
    /\ Result.index = <<Num(0), Num(1), Num(0)>>

\* the frame the lists of ages and groups make
Whole == FrameOf(lists, <<"age", "group">>)
\* the (row label, row) pairs of t, in row order
LabelledRows(t) == [i \in 1..NRows(t) |-> <<t.index[i], ToRowMajorList(t)[i]>>]
\* how often x occurs in the sequence s
Times(s, x) == Cardinality({i \in 1..Len(s) : s[i] = x})
SameMultiset(s, t) == \A x \in Range(s) \cup Range(t) : Times(s, x) = Times(t, x)
\* the operands of the concat are df[c == v] and df[c != v] of the whole frame
SplitOn(c, v) ==
    /\ Returned("concat")
    /\ Operand = FilterRows(Whole, Cmp(c, "==", v))
    /\ Other = FilterRows(Whole, Cmp(c, "!=", v))
SplitValues == {Str("test"), Str("control"), Num(21)}

\* C28: when column c has no Missing cell, df[c == v] and df[c != v] stacked
\* with pd.concat hold the same (row label, row) pairs as df, each as often,
\* and as many rows; every row of df is in exactly one of the two parts.
C28_SplitAndStack ==
    \A c \in Range(Whole.columns), v \in SplitValues :
        (SplitOn(c, v) /\ Missing \notin Range(Whole.data[ColPos(Whole, c)])) =>
            /\ SameMultiset(LabelledRows(Result), LabelledRows(Whole))
            /\ NRows(Result) = NRows(Whole)
            /\ \A i \in 1..NRows(Whole) :
                  Times(LabelledRows(Operand), LabelledRows(Whole)[i])
                      + Times(LabelledRows(Other), LabelledRows(Whole)[i]) = 1

\* control, then test: the test row comes first in the stacked frame
C28_Witness ==
    /\ SplitOn(Str("group"), Str("test"))
    /\ Whole.data[2] = <<Str("control"), Str("test")>>
    /\ Missing \notin Range(Whole.data[2])
    /\ Result.index = <<Num(1), Num(0)>>

\* pd.qcut was called on a column with two or more numbers and strictly
\* increasing quantiles
QCutCalled ==
    last.op = "qcut" /\ CountNumbers(CutInput) >= 2 /\ StrictlyIncreasing(last.q)
\* the upper ends of the bins that qcut made
UpperEnds == [b \in 1..Len(last.cats) |-> last.cats[b].v[2]]
AllDifferent == Cardinality(Numbers(CutInput)) = CountNumbers(CutInput)

\* C29 as stated: on a column with at least 2 numbers and strictly increasing
\* quantiles the edges pd.qcut computes are strictly increasing, repeated
\* values or not, so the call does not fail.
C29_AsStated ==
    QCutCalled => /\ StrictlyIncreasing(QuantileEdges(CutInput, last.q, last.den))
                  /\ last.err = "none"

\* C29, amended: the edges are strictly increasing when the numbers of the
\* column are all different, and then the call returns bins with increasing
\* ends; with repeated values two edges can be equal, and pd.qcut of more than
\* two edges then raises ValueError and of two edges returns the one bin.
C29_Edges ==
    QCutCalled =>
        LET edges == QuantileEdges(CutInput, last.q, last.den)
        IN  /\ \A i \in 1..(Len(edges) - 1) : edges[i] <= edges[i + 1]
            /\ AllDifferent => StrictlyIncreasing(edges) /\ last.err = "none"
            /\ last.err = "none" =>
                   /\ UpperEnds = [b \in 1..(Len(edges) - 1) |-> 1000 * edges[b + 1]]
                   /\ Len(edges) # 2 => StrictlyIncreasing(UpperEnds)
            /\ last.err # "none" =>
                   /\ last.err = "ValueError"
                   /\ ~AllDifferent /\ Len(edges) # 2 /\ ~StrictlyIncreasing(edges)

\* 1, 1, 2 cut at its median: the edges are 1, 1, 2 and the call raises
C29_Witness ==
    /\ QCutCalled /\ CutInput = <<Num(1), Num(1), Num(2)>>
    /\ last.q = <<0, 1, 2>> /\ last.den = 2
    /\ last.err = "ValueError"

\* pd.pivot was called with columns that the frame has
Pivoted == last.op = "pivot" /\ last.err # "UnknownColumn"
\* the cells of row i of the long frame in the index columns, and in `columns`
IndexKey(i) ==
    [k \in 1..Len(last.index) |-> Operand.data[ColPos(Operand, Str(last.index[k]))][i]]
ColumnsKey(i) == Operand.data[ColPos(Operand, Str(last.columns))][i]
DuplicateKeys ==
    \E i, j \in 1..NRows(Operand) :
        i # j /\ IndexKey(i) = IndexKey(j) /\ ColumnsKey(i) = ColumnsKey(j)
\* the value column and the value of `columns` that column j of the wide frame is for
ValueOf(j) ==
    IF last.values.list THEN Result.columns[j].v[2][1] ELSE Str(last.values.names[1])
LevelOf(j) == Result.columns[j].v[2][Len(Result.columns[j].v[2])]
\* the rows of the long frame that cell (r, j) of the wide frame is taken from
RowsFor(r, j) ==
    {i \in 1..NRows(Operand) :
        IndexKey(i) = Result.index[r].v[2] /\ ColumnsKey(i) = LevelOf(j)}

\* C25: pd.pivot fails with DuplicateKey, and builds no frame, when two rows
\* have the same cells in the index columns and in `columns`; otherwise it
\* returns a frame that has a row for every index key and a column for every
\* value column and value of `columns`, whose cell is the cell of the one row
\* with these keys, and Missing where no row has them.
C25_Pivot ==
    Pivoted =>
        IF DuplicateKeys THEN last.err = "DuplicateKey" /\ last.out = 0
        ELSE /\ last.err = "none"
             /\ NoDuplicates(Result.index) /\ NoDuplicates(Result.columns)
             /\ \A i \in 1..NRows(Operand), k \in 1..Len(last.values.names) :
                    \E r \in 1..NRows(Result), j \in 1..NCols(Result) :
                        /\ i \in RowsFor(r, j)
                        /\ ValueOf(j) = Str(last.values.names[k])
             /\ \A r \in 1..NRows(Result), j \in 1..NCols(Result) :
                    /\ Cardinality(RowsFor(r, j)) <= 1
                    /\ RowsFor(r, j) = {} => Result.data[j][r] = Missing
                    /\ \A i \in RowsFor(r, j) :
                           Result.data[j][r] = Operand.data[ColPos(Operand, ValueOf(j))][i]

\* participant 1 is female and participant 2 male: pivoted on gender, caffeine
\* is missing for participant 1 as male and for participant 2 as female
C25_Witness ==
    /\ Pivoted /\ last.err = "none" /\ last.columns = "gender" /\ ~last.values.list
    /\ NRows(Operand) = 2 /\ NRows(Result) = 2 /\ NCols(Result) = 2
    /\ Result.data[1] = <<Num(3), Missing>>
    /\ Result.data[2] = <<Missing, Num(4)>>

\* the wide frame, and its melted form pivoted back: index = the id columns,
\* columns = 'variable', values = 'value'
Wide == frames[1]
PivotedBack ==
    /\ last.op = "pivot" /\ last.in = 2 /\ 1 \in Live
    /\ Operand.columns = [k \in 1..Len(last.index) |-> Str(last.index[k])]
                             \o <<Str("variable"), Str("value")>>
    /\ last.columns = "variable" /\ last.values = [names |-> <<"value">>, list |-> FALSE]
\* the id cells of row i of the wide frame
IdsOf(i) == [k \in 1..Len(last.index) |-> Wide.data[ColPos(Wide, Str(last.index[k]))][i]]
UniqueIds == \A i, j \in 1..NRows(Wide) : IdsOf(i) = IdsOf(j) => i = j
\* the columns of the wide frame that are not id columns
Measured == {j \in 1..NCols(Wide) : \A k \in 1..Len(last.index) : Wide.columns[j] # Str(last.index[k])}
\* the wide frame is back: a row per row of it, a column per measured column,
\* and each cell where it was
Recovered ==
    /\ last.err = "none"
    /\ NRows(Result) = NRows(Wide)
    /\ NRows(Wide) > 0 =>
           {Result.columns[j].v[2] : j \in 1..NCols(Result)} = {<<Wide.columns[c]>> : c \in Measured}
    /\ \A i \in 1..NRows(Wide) :
           \E r \in 1..NRows(Result) :
               /\ Result.index[r].v = <<[k \in 1..Len(last.index) |-> Str(last.index[k])], IdsOf(i)>>
               /\ \A c \in Measured :
                      \E j \in 1..NCols(Result) :
                          /\ Result.columns[j].v[2] = <<Wide.columns[c]>>
                          /\ Result.data[j][r] = Wide.data[c][i]

\* C21 as stated: for every frame whose rows differ in their id cells, pd.melt
\* followed by pd.pivot (index = the id columns, columns = 'variable', values =
\* 'value') gives back the rows and the cells of every column of the frame.
C21_AsStated == (PivotedBack /\ UniqueIds) => Recovered

\* C21, amended: so it is when the frame has a column that is not an id column.
C21_RoundTrip == (PivotedBack /\ UniqueIds /\ Measured # {}) => Recovered

\* two participants, the second listed first: melted and pivoted back
C21_Witness ==
    /\ PivotedBack /\ UniqueIds /\ last.err = "none"
    /\ last.index = <<"id", "gender">>
    /\ Wide.columns = <<Str("id"), Str("gender"), Str("alcohol"), Str("caffeine")>>
    /\ Wide.data[1] = <<Num(2), Num(1)>>
    /\ Wide.data[3] = <<Missing, Num(3)>>
    /\ Result.data[1] = <<Num(3), Missing>>

WentLong == Returned("wide_to_long")
\* the names of the id columns and the stubs of the call, as labels
IdNames == [k \in 1..Len(last.i) |-> Str(last.i[k])]
StubNames == [k \in 1..Len(last.stubs) |-> Str(last.stubs[k])]
\* the suffixes that follow a stub of the call in the name of a column
SuffixesSeen ==
    {s \in {"alcohol", "caffeine"} :
        \E k \in 1..Len(last.stubs) : Str(last.stubs[k] \o "_" \o s) \in Range(Operand.columns)}
\* the rows of the long frame for row r of the wide frame and suffix s
LongRowsOf(r, s) ==
    {h \in 1..NRows(Result) :
        Result.index[h].v[2] =
            [k \in 1..Len(last.i) |-> Operand.data[ColPos(Operand, IdNames[k])][r]]
                \o <<Str(s)>>}
\* a row per row and suffix, labelled with the id cells and the suffix under
\* the names of the id columns and the name given for the suffix
OneRowEach ==
    /\ NRows(Result) = NRows(Operand) * Cardinality(SuffixesSeen)
    /\ \A r \in 1..NRows(Operand), s \in SuffixesSeen : Cardinality(LongRowsOf(r, s)) = 1
    /\ \A h \in 1..NRows(Result) : Result.index[h].v[1] = Append(IdNames, Str(last.j))
\* the column of each stub holds the cell of the column named stub_suffix
StubCells ==
    \A r \in 1..NRows(Operand), s \in SuffixesSeen, k \in 1..Len(last.stubs) :
        ColPos(Operand, Str(last.stubs[k] \o "_" \o s)) # 0 =>
            \A h \in LongRowsOf(r, s) :
                Result.data[ColPos(Result, StubNames[k])][h]
                    = Operand.data[ColPos(Operand, Str(last.stubs[k] \o "_" \o s))][r]
\* the columns of the wide frame that are neither id columns nor named after a stub
Unmatched ==
    {c \in Range(Operand.columns) :
        /\ c \notin Range(IdNames)
        /\ \A k \in 1..Len(last.stubs), s \in SuffixesSeen : c # Str(last.stubs[k] \o "_" \o s)}

\* C22 as stated: pd.wide_to_long returns one row per row of the frame and
\* suffix found, under the id columns and the column of suffixes; its other
\* columns are the stubs, in the order given, each with the cell of the column
\* named stub_suffix.
C22_AsStated == WentLong => OneRowEach /\ StubCells /\ Result.columns = StubNames

\* C22, amended: before the columns of the stubs come the columns of the frame
\* that are neither id columns nor named after a stub, with the cell of their
\* row; a stub's column is Missing where the frame has no column stub_suffix.
C22_WideToLong ==
    WentLong =>
        /\ OneRowEach /\ StubCells
        /\ SubSeq(Result.columns, NCols(Result) - Len(StubNames) + 1, NCols(Result)) = StubNames
        /\ Range(Result.columns) = Unmatched \cup Range(StubNames)
        /\ NCols(Result) = Cardinality(Unmatched) + Len(StubNames)
        /\ \A r \in 1..NRows(Operand), s \in SuffixesSeen : \A h \in LongRowsOf(r, s) :
               /\ \A c \in Unmatched :
                      Result.data[ColPos(Result, c)][h] = Operand.data[ColPos(Operand, c)][r]
               /\ \A k \in 1..Len(last.stubs) :
                      ColPos(Operand, Str(last.stubs[k] \o "_" \o s)) = 0 =>
                          Result.data[ColPos(Result, StubNames[k])][h] = Missing

\* the scenario of the claim: WMC and RT under two drugs, stubs WMC and RT;
\* two participants give four rows, alcohol and caffeine for each
C22_Witness ==
    /\ WentLong /\ last.stubs = <<"WMC", "RT">> /\ last.i = <<"id", "gender">>
    /\ Operand.columns = <<Str("id"), Str("gender"), Str("WMC_alcohol"), Str("WMC_caffeine"),
                           Str("RT_alcohol"), Str("RT_caffeine")>>
    /\ NRows(Operand) = 2 /\ NRows(Result) = 4
    /\ Result.columns = <<Str("WMC"), Str("RT")>>
    /\ [h \in 1..4 |-> Result.index[h].v[2][3]]
           = <<Str("alcohol"), Str("caffeine"), Str("alcohol"), Str("caffeine")>>
    /\ Result.data[2] = <<Num(5), Num(6), Num(5), Num(6)>>

\* pd.wide_to_long was called on a frame with the id columns, no two rows with
\* the same id cells and no column named as a stub
LongCalled ==
    /\ last.op = "wide_to_long"
    /\ Range(IdNames) \subseteq Range(Operand.columns)
    /\ Range(StubNames) \cap Range(Operand.columns) = {}
    /\ \A r, q \in 1..NRows(Operand) :
           (\A k \in 1..Len(IdNames) :
               Operand.data[ColPos(Operand, IdNames[k])][r]
                   = Operand.data[ColPos(Operand, IdNames[k])][q]) => r = q
\* the suffixes that follow stub k in the name of a column
SuffixesOfStub(k) ==
    {s \in {"alcohol", "caffeine"} : Str(last.stubs[k] \o "_" \o s) \in Range(Operand.columns)}
Unbalanced == \E k, h \in 1..Len(last.stubs) : SuffixesOfStub(k) # SuffixesOfStub(h)
Unmatching == \E k \in 1..Len(last.stubs) : SuffixesOfStub(k) = {}

\* C24 as stated: pd.wide_to_long fails with InconsistentStubSuffixes when two
\* stubs have different sets of suffixes and with NoMatchingColumns when a
\* stub matches no column, and returns no frame (stated here of frames that
\* have a row).
C24_AsStated ==
    (LongCalled /\ NRows(Operand) > 0) =>
        /\ Unmatching => last.err = "NoMatchingColumns" /\ last.out = 0
        /\ (Unbalanced /\ ~Unmatching) => last.err = "InconsistentStubSuffixes" /\ last.out = 0

\* C24, amended: in both cases the call returns a frame: a row per row and
\* suffix found for any stub, the column of a stub Missing at the suffixes it
\* has no column for, so all Missing for a stub that matches no column, and no
\* row at all if no stub matches a column.
C24_NoFailure ==
    (LongCalled /\ (Unbalanced \/ Unmatching)) =>
        /\ last.err = "none" /\ OneRowEach /\ StubCells
        /\ \A k \in 1..Len(last.stubs), h \in 1..NRows(Result) :
               Result.index[h].v[2][Len(IdNames) + 1].v \notin SuffixesOfStub(k) =>
                   Result.data[ColPos(Result, StubNames[k])][h] = Missing
        /\ (\A k \in 1..Len(last.stubs) : SuffixesOfStub(k) = {}) => NRows(Result) = 0

\* reaction time was not measured under caffeine: the long frame has the row
\* for caffeine, with RT missing
C24_Witness ==
    /\ LongCalled /\ Unbalanced /\ ~Unmatching /\ last.err = "none"
    /\ last.stubs = <<"WMC", "RT">> /\ NRows(Operand) = 1 /\ NRows(Result) = 2
    /\ Result.data[ColPos(Result, Str("WMC"))] = <<Num(3), Num(4)>>
    /\ Result.data[ColPos(Result, Str("RT"))] = <<Num(5), Missing>>

\* the last cell has run: the joined frame with its index reset
BackToWide == Returned("reset_index") /\ last.in = 1
\* the frame has the columns and the participants of the data it started
\* from, and for each participant a row with the cells of that participant
StartedFrom ==
    /\ NoDuplicates(Result.columns)
    /\ Range(Result.columns) = {Str(nm) : nm \in DOMAIN lists}
    /\ NRows(Result) = Len(lists.id)
    /\ \A r \in 1..Len(lists.id) :
           \E h \in 1..NRows(Result) :
               \A nm \in DOMAIN lists : Result.data[ColPos(Result, Str(nm))][h] = lists[nm][r]

====
